---------------------------- MODULE Spec2Model ----------------------------
(***************************************************************************)
(* State-machine model of the conversation flow engine                    *)
(* (app/services/conversation_flow.py, class ConversationFlow) and of the *)
(* lead scoring of app/services/user_categorization.py.                   *)
(*                                                                         *)
(* Indices are 0-based as in the Python source; TLA+ sequences are        *)
(* 1-based, so element i of a Python list is read as seq[i + 1].          *)
(* Wall-clock values (start_time, the timestamps stored with answers and  *)
(* notes) are not modelled: no modelled decision reads them.               *)
(***************************************************************************)
EXTENDS Integers, Sequences, FiniteSets, TLC

VARIABLES
    current_category_index,   \* ConversationFlow.current_category_index
    current_question_index,   \* ConversationFlow.current_question_index
    responses,                \* ConversationFlow.responses: a dict, question id -> answer
    additional_notes,         \* ConversationFlow.additional_notes: category id -> sequence of notes
    skipped_categories,       \* ConversationFlow.skipped_categories: a list
    raised,                   \* the exception the last call raised, None if it returned
    categorization,           \* what categorize_user returned last (NoCategorization before it has)
    conversation_flows,       \* the router's sessions: session id -> the state of its ConversationFlow
    http,                     \* the router's last response (NoResponse before the first request)
    returned,                 \* the caller's copy of the question id get_current_question returned, None once answered
    event_loop,               \* the conversation requests the event loop has accepted and not finished
    sessions,                 \* ChatService.sessions: session id -> the roles of its message history
    in_flight                 \* the process_message calls that await the language model

vars == << current_category_index, current_question_index, responses,
           additional_notes, skipped_categories, raised, categorization,
           conversation_flows, http, returned, event_loop, sessions, in_flight >>

\* The state of one ConversationFlow.
flow_vars == << current_category_index, current_question_index, responses,
                additional_notes, skipped_categories >>

\* The state of the router.
router_vars == << conversation_flows, http >>

\* The state of the chat service.
chat_vars == << sessions, in_flight >>

\* What a call on a ConversationFlow leaves alone.
not_flow_vars == << router_vars, returned, event_loop, chat_vars >>

\* What a handler of the conversation router leaves alone.
not_router_vars == << flow_vars, raised, categorization, returned, chat_vars >>

None == "None"

\* The value of categorization while categorize_user has returned nothing.
NoCategorization ==
    [ returned |-> FALSE, lead_score |-> 0,
      buyer_type |-> [ type |-> None, priority |-> None, follow_up |-> None ],
      persona |-> None, urgency |-> None, service_needs |-> << >>,
      recommendations |-> [ agent_type |-> None, initial_action |-> None,
                            properties_to_show |-> None, follow_up_strategy |-> None,
                            key_talking_points |-> << >> ] ]

\* The value of http before the first request. A response holds the
\* handler that answered, the session id of the request, the HTTP status
\* code, the "status" field of the body (None when the body has none or
\* the request failed), the id of the question in the body (None when it
\* is null or the body has none) and the categorization in the body
\* (NoCategorization when the body has none).
NoResponse ==
    [ handler |-> None, session_id |-> None, code |-> 0, status |-> None,
      question |-> None, categorization |-> NoCategorization ]

(***************************************************************************)
(* The catalog: _initialize_categories and _initialize_questions.         *)
(***************************************************************************)
categories ==
    << "profile", "budget", "property", "location", "timeline",
       "lifestyle", "investment", "priorities", "decision", "contact" >>

questions ==
    [ profile    |-> << "profile_1", "profile_2", "profile_3" >>,
      budget     |-> << "budget_1", "budget_2", "budget_3" >>,
      property   |-> << "property_1", "property_2", "property_3" >>,
      location   |-> << "location_1", "location_2" >>,
      timeline   |-> << "timeline_1", "timeline_2" >>,
      lifestyle  |-> << "lifestyle_1", "lifestyle_2" >>,
      investment |-> << "investment_1", "investment_2" >>,
      priorities |-> << "priorities_1", "priorities_2" >>,
      decision   |-> << "decision_1", "decision_2" >>,
      contact    |-> << "contact_1", "contact_2" >> ]

\* len(self.categories)
NumCategories == Len(categories)

CategoryIds == { categories[i] : i \in 1..NumCategories }

QuestionIds == UNION { { questions[c][i] : i \in 1..Len(questions[c]) } : c \in CategoryIds }

\* The "condition" entry of a question: the set of <<key, allowed values>>
\* pairs, empty for a question that has no condition.
Condition(q) ==
    CASE q = "budget_3"     -> { << "budget_2",  { "mortgage", "mix" } >> }
      [] q = "lifestyle_1"  -> { << "profile_3", { "family" } >> }
      [] q = "investment_1" -> { << "profile_3", { "investment" } >> }
      [] q = "investment_2" -> { << "profile_3", { "investment" } >> }
      [] OTHER              -> {}

ConditionalQuestions == { q \in QuestionIds : Condition(q) # {} }

(***************************************************************************)
(* Inputs of the callers.  The engine stores any question id and any      *)
(* value (AnswerRequest.answer is typed Any); the sets below are the ones *)
(* the model draws them from.  Every value is modelled as a string: a     *)
(* list value is modelled by its JSON text, which differs from every      *)
(* option string, as a Python list differs from every str.                *)
(***************************************************************************)
\* The stored answer {"value", "is_other", "other_text"} (timestamp left out).
Answer(v, o, t) == [ value |-> v, is_other |-> o, other_text |-> t ]

\* The answers submitted for a question id: option values of the catalog
\* (a list for a multiple-choice question); several for the questions a
\* condition reads.
AnswerInputs(q) ==
    CASE q = "profile_1"    -> { Answer("other", TRUE, "between two countries") }
      [] q = "profile_2"    -> { Answer("first_time", FALSE, None) }
      [] q = "profile_3"    -> { Answer("family", FALSE, None),
                                 Answer("investment", FALSE, None) }
      [] q = "budget_1"     -> { Answer("5m_plus", FALSE, None) }
      [] q = "budget_2"     -> { Answer("cash", FALSE, None),
                                 Answer("mortgage", FALSE, None) }
      [] q = "budget_3"     -> { Answer("pre_approved", FALSE, None) }
      [] q = "property_1"   -> { Answer("villa", FALSE, None) }
      [] q = "property_2"   -> { Answer("5br_plus", FALSE, None) }
      [] q = "property_3"   -> { Answer("new_only", FALSE, None) }
      [] q = "location_1"   -> { Answer("beachside", FALSE, None) }
      [] q = "location_2"   -> { Answer("wfh", FALSE, None) }
      [] q = "timeline_1"   -> { Answer("asap", FALSE, None) }
      [] q = "timeline_2"   -> { Answer("lease_ending", FALSE, None) }
      [] q = "lifestyle_1"  -> { Answer("very_important", FALSE, None) }
      [] q = "lifestyle_2"  -> { Answer("[pool, gym]", FALSE, None) }
      [] q = "investment_1" -> { Answer("rental", FALSE, None) }
      [] q = "investment_2" -> { Answer("yield_key", FALSE, None) }
      [] q = "priorities_1" -> { Answer("[location, value]", FALSE, None) }
      [] q = "priorities_2" -> { Answer("[noisy]", FALSE, None) }
      [] q = "decision_1"   -> { Answer("quick_decision", FALSE, None) }
      [] q = "decision_2"   -> { Answer("in_person", FALSE, None) }
      [] q = "contact_1"    -> { Answer("[whatsapp]", FALSE, None) }
      [] q = "contact_2"    -> { Answer("morning", FALSE, None) }
      [] OTHER              -> { Answer("anything", FALSE, None) }

\* Question ids a caller submits besides the id of the question at the
\* cursor: a catalog id that is ahead of, at, or behind the cursor
\* depending on the state.
StrayQuestionIds == { "budget_3" }

\* The categories during which a caller submits a stray id; a caller also
\* submits one in the terminal state, where the cursor has no question.
StrayWhile == { "budget" }

\* Category ids passed to skip_category: a catalog category (ahead of, at,
\* or behind the cursor depending on the state) and an id not in the catalog.
SkipInputs == { "budget", "no_such_category" }

\* Category ids and texts passed to add_category_note.
NoteCategoryInputs == { "budget", "no_such_category" }

NoteInputs == { "call me after six" }

\* Bounds of the model.
MaxSkips == 2          \* skip_category calls (length of skipped_categories) in Spec
MaxNotes == 1          \* add_category_note calls (notes stored in total) in Spec
MaxTerminalIndex == 2  \* question index reached by submissions in the terminal state

(***************************************************************************)
(* Helpers on the state.                                                   *)
(***************************************************************************)
\* key in self.responses
Answered(resp, q) == q \in DOMAIN resp

\* len(self.responses)
NumResponses(resp) == Cardinality(DOMAIN resp)

\* DictSet as d.setdefault(k, v): an existing entry is kept.
DictSetDefault(d, k, v) ==
    [ x \in DOMAIN d \cup { k } |-> IF x \in DOMAIN d THEN d[x] ELSE v ]

\* DictSet as d = {k: v}: the other entries are dropped.
DictSetOnly(d, k, v) == [ x \in { k } |-> v ]

\* d[k] = v on a dict
DictSet(d, k, v) == [ x \in DOMAIN d \cup { k } |-> IF x = k THEN v ELSE d[x] ]

EmptyDict == [ x \in {} |-> None ]

IsTerminal(ci) == ci >= NumCategories

\* questions[category at index ci]
QuestionsAt(ci) == questions[categories[ci + 1]]

RECURSIVE SeqSum(_, _)
SeqSum(f, S) == IF S = {} THEN 0
                ELSE LET x == CHOOSE y \in S : TRUE IN f[x] + SeqSum(f, S \ {x})

TotalNotes(notes) == SeqSum([ c \in DOMAIN notes |-> Len(notes[c]) ], DOMAIN notes)

\* event_loop while no request is accepted: the flow the accepted batch
\* of requests found, the batch, the requests not yet run and the requests
\* suspended in the middle of their handler.
NoBatch == [ base |-> EmptyDict, batch |-> {}, pending |-> {}, suspended |-> {} ]

\* The state outside the ConversationFlow at start-up: no conversation
\* session, no response, nothing returned to the caller, no request
\* accepted, no chat session, no call of the language model.
OutsideInit ==
    /\ conversation_flows = EmptyDict
    /\ http = NoResponse
    /\ returned = None
    /\ event_loop = NoBatch
    /\ sessions = EmptyDict
    /\ in_flight = EmptyDict

(***************************************************************************)
(* get_current_question: the cursor walk.                                  *)
(***************************************************************************)
\* Lines 491-499: the condition of question q against the recorded
\* answers.  A key with no recorded answer leaves condition_met True.
ConditionMet(q, resp) ==
    \A kv \in Condition(q) :
        Answered(resp, kv[1]) => resp[kv[1]].value \in kv[2]

\* Walk as an iterator would do it: the cursor is left one past the
\* question that is returned.
RECURSIVE WalkPostIncrement(_, _, _)
WalkPostIncrement(ci, qi, resp) ==
    IF ci >= NumCategories
    THEN [ ci |-> ci, qi |-> qi, q |-> None ]
    ELSE IF qi < Len(QuestionsAt(ci))
         THEN IF ConditionMet(QuestionsAt(ci)[qi + 1], resp)
              THEN [ ci |-> ci, qi |-> qi + 1, q |-> QuestionsAt(ci)[qi + 1] ]
              ELSE WalkPostIncrement(ci, qi + 1, resp)
         ELSE WalkPostIncrement(ci + 1, 0, resp)

\* Walk without the move to the next category: at the end of a category
\* the call returns None.
RECURSIVE WalkNoRollover(_, _, _)
WalkNoRollover(ci, qi, resp) ==
    IF ci >= NumCategories
    THEN [ ci |-> ci, qi |-> qi, q |-> None ]
    ELSE IF qi < Len(QuestionsAt(ci))
         THEN IF ConditionMet(QuestionsAt(ci)[qi + 1], resp)
              THEN [ ci |-> ci, qi |-> qi, q |-> QuestionsAt(ci)[qi + 1] ]
              ELSE WalkNoRollover(ci, qi + 1, resp)
         ELSE [ ci |-> ci, qi |-> qi, q |-> None ]

\* The walk from cursor (ci, qi): the cursor it ends at and the question
\* it returns (None at the terminal position).
RECURSIVE Walk(_, _, _)
Walk(ci, qi, resp) ==
    IF ci >= NumCategories
    THEN [ ci |-> ci, qi |-> qi, q |-> None ]
    ELSE IF qi < Len(QuestionsAt(ci))
         THEN IF ConditionMet(QuestionsAt(ci)[qi + 1], resp)
              THEN [ ci |-> ci, qi |-> qi, q |-> QuestionsAt(ci)[qi + 1] ]
              ELSE Walk(ci, qi + 1, resp)
         ELSE Walk(ci + 1, 0, resp)

get_current_question ==
    LET w == Walk(current_category_index, current_question_index, responses) IN
    /\ current_category_index' = w.ci
    /\ current_question_index' = w.qi
    /\ raised' = None
    /\ UNCHANGED << responses, additional_notes, skipped_categories, categorization >>
    /\ UNCHANGED not_flow_vars

(***************************************************************************)
(* process_response                                                        *)
(***************************************************************************)
\* Advance that goes back to the first question of the category at the
\* end of the category.
AdvanceWrap(ci, qi) ==
    IF qi + 1 >= Len(QuestionsAt(ci))
    THEN [ ci |-> ci, qi |-> 0 ]
    ELSE [ ci |-> ci, qi |-> qi + 1 ]

\* Advance without the increment of the question index.
AdvanceStuck(ci, qi) == [ ci |-> ci, qi |-> qi ]

\* The cursor after "self.current_question_index += 1" and the roll-over
\* test of lines 531-535, for a cursor that is not terminal.
Advance(ci, qi) ==
    IF qi + 1 >= Len(QuestionsAt(ci))
    THEN [ ci |-> ci + 1, qi |-> 0 ]
    ELSE [ ci |-> ci, qi |-> qi + 1 ]

\* A process_response that moves the cursor past the question that was
\* answered when that question lies ahead in the current category.
process_response_seeking(question_id, answer) ==
    /\ IsTerminal(current_category_index) => current_question_index < MaxTerminalIndex
    /\ IF IsTerminal(current_category_index)
       THEN /\ current_question_index' = current_question_index + 1
            /\ current_category_index' = current_category_index
            /\ raised' = "IndexError"
       ELSE LET qs == QuestionsAt(current_category_index)
                ahead == { j \in current_question_index .. Len(qs) - 1 :
                             qs[j + 1] = question_id }
                from == IF ahead = {} THEN current_question_index
                        ELSE CHOOSE j \in ahead : TRUE
                c == Advance(current_category_index, from) IN
            /\ current_category_index' = c.ci
            /\ current_question_index' = c.qi
            /\ raised' = None
    /\ responses' = DictSet(responses, question_id, answer)
    /\ UNCHANGED << additional_notes, skipped_categories, categorization >>
    /\ UNCHANGED not_flow_vars

\* In the terminal state self.categories[self.current_category_index]
\* (line 531) raises IndexError, after the answer was stored and the
\* question index incremented.
process_response(question_id, answer) ==
    /\ IsTerminal(current_category_index) => current_question_index < MaxTerminalIndex
    /\ IF IsTerminal(current_category_index)
       THEN /\ current_question_index' = current_question_index + 1
            /\ current_category_index' = current_category_index
            /\ raised' = "IndexError"
       ELSE LET c == Advance(current_category_index, current_question_index) IN
            /\ current_category_index' = c.ci
            /\ current_question_index' = c.qi
            /\ raised' = None
    /\ responses' = DictSet(responses, question_id, answer)
    /\ UNCHANGED << additional_notes, skipped_categories, categorization >>
    /\ UNCHANGED not_flow_vars

\* The id of the question the cursor points at, if there is one.
CursorQuestionIds ==
    IF ~IsTerminal(current_category_index)
       /\ current_question_index < Len(QuestionsAt(current_category_index))
    THEN { QuestionsAt(current_category_index)[current_question_index + 1] }
    ELSE {}

\* The question ids submitted in the current state.
SubmitInputs ==
    CursorQuestionIds \cup
    ( IF IsTerminal(current_category_index)
         \/ categories[current_category_index + 1] \in StrayWhile
      THEN StrayQuestionIds ELSE {} )

(***************************************************************************)
(* add_category_note, skip_category, restart_flow                          *)
(***************************************************************************)
\* add_category_note with "self.additional_notes[category_id] = [note]":
\* the notes stored before are replaced.
add_category_note_replacing(category_id, note) ==
    /\ additional_notes' = DictSet(additional_notes, category_id, << note >>)
    /\ raised' = None
    /\ UNCHANGED << current_category_index, current_question_index, responses,
                    skipped_categories, categorization >>
    /\ UNCHANGED not_flow_vars

add_category_note(category_id, note) ==
    /\ additional_notes' =
          DictSet(additional_notes, category_id,
                  Append(IF category_id \in DOMAIN additional_notes
                         THEN additional_notes[category_id] ELSE << >>, note))
    /\ raised' = None
    /\ UNCHANGED << current_category_index, current_question_index, responses,
                    skipped_categories, categorization >>
    /\ UNCHANGED not_flow_vars

\* SkipMovesCursor without the test "i == self.current_category_index".
SkipMovesCursorAlways(category_id, ci) == TRUE

\* SkipMovesCursor with "i >= self.current_category_index": a category not
\* yet reached moves the cursor too.
SkipMovesCursorNotPassed(category_id, ci) ==
    \E i \in 1..NumCategories : categories[i] = category_id /\ i - 1 >= ci

\* Lines 550-555: the cursor moves only when category_id is the category
\* at the cursor.
SkipMovesCursor(category_id, ci) ==
    \E i \in 1..NumCategories : categories[i] = category_id /\ i - 1 = ci

skip_category(category_id) ==
    /\ skipped_categories' = Append(skipped_categories, category_id)
    /\ IF SkipMovesCursor(category_id, current_category_index)
       THEN /\ current_category_index' = current_category_index + 1
            /\ current_question_index' = 0
       ELSE UNCHANGED << current_category_index, current_question_index >>
    /\ raised' = None
    /\ UNCHANGED << responses, additional_notes, categorization >>
    /\ UNCHANGED not_flow_vars

\* restart_flow as a re-initialisation: the answers are dropped too.
restart_flow_clearing ==
    /\ current_category_index' = 0
    /\ current_question_index' = 0
    /\ responses' = EmptyDict
    /\ raised' = None
    /\ UNCHANGED << additional_notes, skipped_categories, categorization >>
    /\ UNCHANGED not_flow_vars

restart_flow ==
    /\ current_category_index' = 0
    /\ current_question_index' = 0
    /\ raised' = None
    /\ UNCHANGED << responses, additional_notes, skipped_categories, categorization >>
    /\ UNCHANGED not_flow_vars

(***************************************************************************)
(* is_complete                                                             *)
(***************************************************************************)
\* is_complete with ">" for ">=".
IsCompleteOffByOne(ci) == ci > NumCategories

IsComplete(ci) == ci >= NumCategories

(***************************************************************************)
(* get_progress, get_timeline_status: what they return                     *)
(***************************************************************************)
\* self.estimated_total_time, in minutes
estimated_total_time == 10

\* "current_category" of get_progress (line 578)
CurrentCategory(ci) ==
    IF ci < NumCategories THEN categories[ci + 1] ELSE "complete"

\* EstimatedRemaining clamped at 0.
EstimatedRemainingClamped(ci, skipped) ==
    IF NumCategories - ci - Len(skipped) < 0 THEN 0
    ELSE ((NumCategories - ci - Len(skipped)) * estimated_total_time) \div NumCategories

\* Lines 573-575 and 586: remaining_categories * avg_time_per_category. The
\* average is 10 / 10 minutes, so the product is a whole number of minutes
\* and round(_, 1) leaves it as it is.
EstimatedRemaining(ci, skipped) ==
    ((NumCategories - ci - Len(skipped)) * estimated_total_time) \div NumCategories

\* The number of questions of the catalog (lines 563-567).
TotalQuestions == Cardinality(QuestionIds)

\* A get_progress whose percentage is that of the questions answered.
GetProgressByQuestions(ci, resp, skipped) ==
    [ current_category     |-> CurrentCategory(ci),
      categories_completed |-> ci,
      total_categories     |-> NumCategories,
      questions_answered   |-> Cardinality(DOMAIN resp),
      total_questions      |-> TotalQuestions,
      percentage_complete  |-> (Cardinality(DOMAIN resp) * 100) \div TotalQuestions,
      estimated_remaining  |-> EstimatedRemaining(ci, skipped),
      skipped_categories   |-> skipped ]

\* get_progress (lines 557-588) without the wall-clock field time_elapsed
\* and the display name. percentage_complete is round(100 * ci / 10), a
\* whole number before rounding.
GetProgress(ci, resp, skipped) ==
    [ current_category     |-> CurrentCategory(ci),
      categories_completed |-> ci,
      total_categories     |-> NumCategories,
      questions_answered   |-> Cardinality(DOMAIN resp),
      total_questions      |-> TotalQuestions,
      percentage_complete  |-> (ci * 100) \div NumCategories,
      estimated_remaining  |-> EstimatedRemaining(ci, skipped),
      skipped_categories   |-> skipped ]

\* The elements of a list.
Elements(seq) == { seq[i] : i \in 1..Len(seq) }

\* TimelineStatus with the skipped test made first.
TimelineStatusSkippedFirst(i, ci, skipped) ==
    IF categories[i + 1] \in Elements(skipped) THEN "skipped"
    ELSE IF i < ci THEN "completed"
    ELSE IF i = ci THEN "active"
    ELSE "upcoming"

\* Lines 594-597: the status of the category of (0-based) index i.
TimelineStatus(i, ci, skipped) ==
    IF i < ci THEN "completed"
    ELSE IF i = ci THEN "active"
    ELSE IF categories[i + 1] \in Elements(skipped) THEN "skipped"
    ELSE "upcoming"

\* get_timeline_status (lines 590-607): id and status of every entry.
GetTimelineStatus(ci, skipped) ==
    [ i \in 1..NumCategories |->
        [ id |-> categories[i], status |-> TimelineStatus(i - 1, ci, skipped) ] ]

\* The reads change nothing of the flow and raise nothing: get_progress
\* indexes self.categories only under "current_category_index <
\* total_categories" (lines 578-579) and divides by len(self.categories).
Read ==
    /\ raised' = None
    /\ UNCHANGED << flow_vars, categorization >>
    /\ UNCHANGED not_flow_vars

is_complete == Read

get_progress == Read

get_timeline_status == Read

get_summary == Read

(***************************************************************************)
(* The flow engine.                                                        *)
(***************************************************************************)
Init ==
    /\ current_category_index = 0
    /\ current_question_index = 0
    /\ responses = EmptyDict
    /\ additional_notes = EmptyDict
    /\ skipped_categories = << >>
    /\ raised = None
    /\ categorization = NoCategorization
    /\ OutsideInit

Next ==
    \/ get_current_question
    \/ \E q \in SubmitInputs : \E a \in AnswerInputs(q) : process_response(q, a)
    \/ /\ TotalNotes(additional_notes) < MaxNotes
       /\ \E c \in NoteCategoryInputs : \E n \in NoteInputs : add_category_note(c, n)
    \/ /\ Len(skipped_categories) < MaxSkips
       /\ \E c \in SkipInputs : skip_category(c)
    \/ restart_flow
    \/ is_complete
    \/ get_progress
    \/ get_timeline_status
    \/ get_summary

Spec == Init /\ [][Next]_vars

(***************************************************************************)
(* The notes on their own: a caller who answers the question at the       *)
(* cursor and adds notes before, during and after the questions.           *)
(***************************************************************************)
\* The texts passed to add_category_note: two, so that the order of the
\* stored notes shows.
NoteInputsAlone == { "call me after six", "no agents please" }

MaxNotesAlone == 3     \* add_category_note calls (notes stored in total) in NoteSpec

NoteNext ==
    \/ get_current_question
    \/ \E q \in CursorQuestionIds : \E a \in AnswerInputs(q) : process_response(q, a)
    \/ /\ TotalNotes(additional_notes) < MaxNotesAlone
       /\ \E c \in NoteCategoryInputs : \E n \in NoteInputsAlone : add_category_note(c, n)

NoteSpec == Init /\ [][NoteNext]_vars

(***************************************************************************)
(* The skips on their own: a caller who only calls skip_category and      *)
(* reads the progress.                                                     *)
(***************************************************************************)
\* The ids passed to skip_category: the category at the cursor, the first
\* category (at the cursor, then passed) and an id not in the catalog.
SkipInputsAlone ==
    { "profile", "no_such_category" }
    \cup (IF IsTerminal(current_category_index) THEN {}
          ELSE { categories[current_category_index + 1] })

MaxSkipsAlone == 7     \* skip_category calls in SkipSpec

SkipNext ==
    \/ /\ Len(skipped_categories) < MaxSkipsAlone
       /\ \E c \in SkipInputsAlone : skip_category(c)
    \/ get_progress

SkipSpec == Init /\ [][SkipNext]_vars

(***************************************************************************)
(* The submissions on their own: a caller who answers the question at the  *)
(* cursor and, during the first and the last category and after the end,   *)
(* also questions behind the cursor, ahead of it and outside the catalog.  *)
(***************************************************************************)
StrayQuestionIdsAlone == { "profile_1", "contact_2", "no_such_question" }

StrayWhileAlone == { "profile", "contact" }

SubmitInputsAlone ==
    CursorQuestionIds \cup
    ( IF IsTerminal(current_category_index)
         \/ categories[current_category_index + 1] \in StrayWhileAlone
      THEN StrayQuestionIdsAlone ELSE {} )

SubmitNext ==
    \/ get_current_question
    \/ \E q \in SubmitInputsAlone : \E a \in AnswerInputs(q) :
          process_response(q, a)

SubmitSpec == Init /\ [][SubmitNext]_vars

(***************************************************************************)
(* UserCategorization._calculate_lead_score                                *)
(***************************************************************************)
\* The list values of the model (the JSON text of a Python list).
ListValues ==
    { "[]", "[asap]", "[quick_decision]", "[pool, gym]", "[location, value]",
      "[noisy]", "[whatsapp]" }

\* dict.get(v, default) raises TypeError for an unhashable key v.
Hashable(v) == v \notin ListValues

\* bool(v): None, the empty string and the empty list are false.
Truthy(v) == v \notin { None, "", "[]" }

\* responses.get(q, {}).get("value")
GetValue(resp, q) == IF q \in DOMAIN resp THEN resp[q].value ELSE None

Min(a, b) == IF a <= b THEN a ELSE b

\* TimelineScore with the table upside down.
TimelineScoreReversed(v) ==
    CASE v = "asap"        -> 5
      [] v = "3_months"    -> 10
      [] v = "3_6_months"  -> 15
      [] v = "6_12_months" -> 25
      [] v = "planning"    -> 30
      [] OTHER             -> 0

\* Lines 53-61: timeline_scores.get(timeline_response, 0)
TimelineScore(v) ==
    CASE v = "asap"        -> 30
      [] v = "3_months"    -> 25
      [] v = "3_6_months"  -> 15
      [] v = "6_12_months" -> 10
      [] v = "planning"    -> 5
      [] OTHER             -> 0

\* Lines 64-68
BudgetClarityScore(v) ==
    IF Truthy(v) /\ v # "flexible" THEN 20
    ELSE IF v = "flexible" THEN 10
    ELSE 0

\* FinancingScore with "pre_approved" counted only for a financed purchase.
FinancingNeedsPayment(payment_method, bank_status) ==
    IF payment_method = "cash" THEN 15
    ELSE IF payment_method \in { "mortgage", "mix" } /\ bank_status = "pre_approved" THEN 15
    ELSE IF payment_method \in { "mortgage", "mix" } /\ bank_status = "planning" THEN 10
    ELSE IF payment_method \in { "mortgage", "mix" } THEN 5
    ELSE 0

\* Lines 71-81
FinancingScore(payment_method, bank_status) ==
    IF payment_method = "cash" THEN 15
    ELSE IF bank_status = "pre_approved" THEN 15
    ELSE IF payment_method \in { "mortgage", "mix" } /\ bank_status = "planning" THEN 10
    ELSE IF payment_method \in { "mortgage", "mix" } THEN 5
    ELSE 0

\* Lines 84-90
PropertyClarityScore(property_type, bedrooms) ==
    (IF Truthy(property_type) /\ property_type # "open" THEN 8 ELSE 0)
    + (IF Truthy(bedrooms) THEN 7 ELSE 0)

\* Lines 93-100: decision_scores.get(decision, 0)
DecisionScore(v) ==
    CASE v = "quick_decision"  -> 10
      [] v = "partner_discuss" -> 7
      [] v = "family_approval" -> 5
      [] v = "think_about"     -> 3
      [] OTHER                 -> 0

\* EngagementScore with "-=" for "+=" in the last branch.
EngagementSignError(total_responses) ==
    IF total_responses >= 20 THEN 10
    ELSE IF total_responses >= 15 THEN 8
    ELSE IF total_responses >= 10 THEN 5
    ELSE 0 - 3

\* Lines 103-111
EngagementScore(total_responses) ==
    IF total_responses >= 20 THEN 10
    ELSE IF total_responses >= 15 THEN 8
    ELSE IF total_responses >= 10 THEN 5
    ELSE 3

\* The two dict.get calls keyed by an answer value (lines 61 and 100)
\* raise TypeError when that value is a list.
LeadScoreRaises(resp) ==
    \/ ~Hashable(GetValue(resp, "timeline_1"))
    \/ ~Hashable(GetValue(resp, "decision_1"))

\* The score returned when nothing is raised.
CalculateLeadScore(resp) ==
    Min(100,
        TimelineScore(GetValue(resp, "timeline_1"))
        + BudgetClarityScore(GetValue(resp, "budget_1"))
        + FinancingScore(GetValue(resp, "budget_2"), GetValue(resp, "budget_3"))
        + PropertyClarityScore(GetValue(resp, "property_1"), GetValue(resp, "property_2"))
        + DecisionScore(GetValue(resp, "decision_1"))
        + EngagementScore(NumResponses(resp)))

\* BuyerType with the thresholds tested by ">" for ">=".
BuyerTypeStrict(lead_score) ==
    IF lead_score > 80
    THEN [ type |-> "serious_buyer", priority |-> "high", follow_up |-> "immediate" ]
    ELSE IF lead_score > 60
    THEN [ type |-> "active_looker", priority |-> "medium-high",
           follow_up |-> "within_24_hours" ]
    ELSE IF lead_score > 40
    THEN [ type |-> "early_explorer", priority |-> "medium", follow_up |-> "within_week" ]
    ELSE [ type |-> "info_seeker", priority |-> "low", follow_up |-> "nurture_campaign" ]

\* _determine_buyer_type (lines 115-152): the tier is read off the score;
\* looking_status (timeline_2) is read and not used.
BuyerType(lead_score) ==
    IF lead_score >= 80
    THEN [ type |-> "serious_buyer", priority |-> "high", follow_up |-> "immediate" ]
    ELSE IF lead_score >= 60
    THEN [ type |-> "active_looker", priority |-> "medium-high",
           follow_up |-> "within_24_hours" ]
    ELSE IF lead_score >= 40
    THEN [ type |-> "early_explorer", priority |-> "medium", follow_up |-> "within_week" ]
    ELSE [ type |-> "info_seeker", priority |-> "low", follow_up |-> "nurture_campaign" ]

\* A one-element list if cond holds, the empty list otherwise
\* ("if cond: personas.append(x)").
AppendIf(cond, x) == IF cond THEN << x >> ELSE << >>

\* Personas with the investment test placed before the family test.
PersonasInvestmentFirst(resp) ==
    LET who_living      == GetValue(resp, "profile_3")
        first_time      == GetValue(resp, "profile_2")
        budget          == GetValue(resp, "budget_1")
        property_type   == GetValue(resp, "property_1")
        schools         == GetValue(resp, "lifestyle_1")
        investment_goal == GetValue(resp, "investment_1")
    IN  AppendIf(who_living = "investment" \/ Truthy(investment_goal), "investment_minded")
        \o AppendIf(who_living = "family" \/ schools \in { "very_important", "somewhat" },
                    "family_focused")
        \o AppendIf(budget \in { "3.5m_5m", "5m_plus" } /\ property_type = "villa",
                    "luxury_seeker")
        \o AppendIf(first_time = "first_time", "first_timer")
        \o AppendIf(budget \in { "under_1m", "1m_2m" } /\ who_living # "investment",
                    "value_hunter")
        \o AppendIf(first_time = "owns_property", "upgrader")

\* The list "personas" of _identify_persona (lines 154-213): the type of
\* every matching persona, in the order the code appends them.
Personas(resp) ==
    LET who_living      == GetValue(resp, "profile_3")
        first_time      == GetValue(resp, "profile_2")
        budget          == GetValue(resp, "budget_1")
        property_type   == GetValue(resp, "property_1")
        schools         == GetValue(resp, "lifestyle_1")
        investment_goal == GetValue(resp, "investment_1")
    IN  AppendIf(who_living = "family" \/ schools \in { "very_important", "somewhat" },
                 "family_focused")
        \o AppendIf(who_living = "investment" \/ Truthy(investment_goal), "investment_minded")
        \o AppendIf(budget \in { "3.5m_5m", "5m_plus" } /\ property_type = "villa",
                    "luxury_seeker")
        \o AppendIf(first_time = "first_time", "first_timer")
        \o AppendIf(budget \in { "under_1m", "1m_2m" } /\ who_living # "investment",
                    "value_hunter")
        \o AppendIf(first_time = "owns_property", "upgrader")

\* _identify_persona (lines 215-223): personas[0], or the default.
IdentifyPersona(resp) ==
    IF Personas(resp) # << >> THEN Head(Personas(resp)) ELSE "general_buyer"

\* An urgency that looks at the timeline only.
DetermineUrgencyTimelineOnly(resp) ==
    LET timeline == GetValue(resp, "timeline_1")
    IN  IF timeline \in { "asap", "3_months" } THEN "high"
        ELSE IF timeline = "3_6_months" THEN "moderate"
        ELSE "low"

\* _determine_urgency (lines 225-255): the level.
DetermineUrgency(resp) ==
    LET timeline == GetValue(resp, "timeline_1")
        reason   == GetValue(resp, "timeline_2")
    IN  IF timeline \in { "asap", "3_months" } \/ reason \in { "lease_ending", "new_to_dubai" }
        THEN "high"
        ELSE IF timeline = "3_6_months" THEN "moderate"
        ELSE "low"

\* _identify_service_needs, lines 260-288: the services appended before
\* the default test.
ServicesMatched(resp) ==
    LET payment_method == GetValue(resp, "budget_2")
        bank_status    == GetValue(resp, "budget_3")
        first_time     == GetValue(resp, "profile_2")
        viewing_pref   == GetValue(resp, "decision_2")
    IN  AppendIf(payment_method \in { "mortgage", "mix" } /\ bank_status = "need_guidance",
                 "mortgage_assistance")
        \o AppendIf(payment_method \in { "mortgage", "mix" } /\ bank_status = "planning",
                    "bank_introduction")
        \o (IF first_time = "first_time"
            THEN << "full_guidance", "legal_assistance" >> ELSE << >>)
        \o AppendIf(viewing_pref = "virtual_first", "virtual_tours")
        \o AppendIf(viewing_pref = "in_person", "property_viewings")
        \o (IF GetValue(resp, "profile_3") = "investment"
            THEN << "investment_analysis", "rental_management" >> ELSE << >>)

\* ServiceNeeds without the default services.
ServiceNeedsNoDefault(resp) == ServicesMatched(resp)

\* ServiceNeeds with the default services appended in every case.
ServiceNeedsDefaultsAlways(resp) ==
    ServicesMatched(resp) \o << "property_matching", "viewing_arrangement" >>

\* _identify_service_needs (lines 257-295): the list of services, the
\* two defaults when nothing matched.
ServiceNeeds(resp) ==
    IF ServicesMatched(resp) = << >>
    THEN << "property_matching", "viewing_arrangement" >>
    ELSE ServicesMatched(resp)

\* Recommendations whose properties_to_show also looks at the services.
GenerateRecommendationsByService(buyer_type, persona, service_needs) ==
    [ agent_type |-> "General property consultant",
      initial_action |-> "Send welcome email with market guide",
      properties_to_show |->
          IF \E i \in 1..Len(service_needs) : service_needs[i] = "virtual_tours"
          THEN "virtual tours first" ELSE "2-3 examples to gauge interest",
      follow_up_strategy |-> buyer_type.follow_up,
      key_talking_points |-> << "Property features and amenities",
                                "Location advantages", "Value proposition" >> ]

\* _generate_recommendations (lines 297-357); persona is the persona's
\* "type". service_needs is a parameter the body never reads.
GenerateRecommendations(buyer_type, persona, service_needs) ==
    [ agent_type |->
          IF persona = "investment_minded" THEN "Investment specialist"
          ELSE IF persona = "luxury_seeker" THEN "Luxury property expert"
          ELSE IF persona = "family_focused" THEN "Family homes specialist"
          ELSE "General property consultant",
      initial_action |->
          IF buyer_type.type = "serious_buyer"
          THEN "Call immediately and arrange viewings"
          ELSE IF buyer_type.type = "active_looker"
          THEN "Send curated property selection"
          ELSE "Send welcome email with market guide",
      properties_to_show |->
          IF buyer_type.type = "serious_buyer" THEN "5-7 best matches, ready to visit"
          ELSE IF buyer_type.type = "active_looker" THEN "3-5 strong options"
          ELSE "2-3 examples to gauge interest",
      follow_up_strategy |-> buyer_type.follow_up,
      key_talking_points |->
          IF persona = "family_focused"
          THEN << "School proximity and quality", "Safe, family-friendly communities",
                  "Parks and recreational facilities" >>
          ELSE IF persona = "investment_minded"
          THEN << "ROI and rental yields", "Growth potential areas",
                  "Developer reputation and track record" >>
          ELSE IF persona = "first_timer"
          THEN << "Step-by-step buying process", "Ownership laws and regulations",
                  "Hidden costs and fees" >>
          ELSE << "Property features and amenities", "Location advantages",
                  "Value proposition" >> ]

\* get_summary (conversation_flow.py lines 613-621) without the
\* wall-clock field completion_time: the completion_info the router
\* passes to categorize_user.
GetSummary(ci, resp, notes, skipped) ==
    [ responses |-> resp, additional_notes |-> notes,
      skipped_categories |-> skipped, is_complete |-> IsComplete(ci) ]

\* A categorize_user whose lead score also counts the notes.
CategorizeUserCountingNotes(resp, notes, completion_info) ==
    LET lead_score == Min(100, CalculateLeadScore(resp) + 5 * TotalNotes(notes)) IN
    [ returned |-> TRUE,
      lead_score |-> lead_score,
      buyer_type |-> BuyerType(lead_score),
      persona |-> IdentifyPersona(resp),
      urgency |-> DetermineUrgency(resp),
      service_needs |-> ServiceNeeds(resp),
      recommendations |->
          GenerateRecommendations(BuyerType(lead_score),
                                  IdentifyPersona(resp), ServiceNeeds(resp)) ]

\* What categorize_user (lines 17-46) returns for an answer map on which
\* _calculate_lead_score raises nothing; the timestamp is left out. The
\* body reads neither additional_notes nor completion_info.
CategorizeUser(resp, notes, completion_info) ==
    [ returned |-> TRUE,
      lead_score |-> CalculateLeadScore(resp),
      buyer_type |-> BuyerType(CalculateLeadScore(resp)),
      persona |-> IdentifyPersona(resp),
      urgency |-> DetermineUrgency(resp),
      service_needs |-> ServiceNeeds(resp),
      recommendations |->
          GenerateRecommendations(BuyerType(CalculateLeadScore(resp)),
                                  IdentifyPersona(resp), ServiceNeeds(resp)) ]

\* categorize_user as the router calls it, on the summary of the flow:
\* _calculate_lead_score is its first step, and an exception of it leaves
\* categorize_user without a result.
categorize_user ==
    /\ IF LeadScoreRaises(responses)
       THEN /\ raised' = "TypeError"
            /\ categorization' = NoCategorization
       ELSE /\ raised' = None
            /\ categorization' =
                 CategorizeUser(responses, additional_notes,
                                GetSummary(current_category_index, responses,
                                           additional_notes, skipped_categories))
    /\ UNCHANGED flow_vars
    /\ UNCHANGED not_flow_vars

(***************************************************************************)
(* The scoring on its own: categorize_user applied to answer maps drawn   *)
(* from the values the scoring reads.                                      *)
(***************************************************************************)
Absent == "<absent>"

\* The question ids _calculate_lead_score reads.
ScoredIds ==
    { "timeline_1", "budget_1", "budget_2", "budget_3", "property_1",
      "property_2", "decision_1" }

\* The values drawn for each of them: the options the scoring tells
\* apart, a value that is no option, the empty string, a list.
ScoreInputs(q) ==
    CASE q = "timeline_1" -> { Absent, "asap", "3_months", "3_6_months", "6_12_months",
                               "planning", "someday", "[asap]" }
      [] q = "budget_1"   -> { Absent, "5m_plus", "flexible", "" }
      [] q = "budget_2"   -> { Absent, "cash", "mortgage", "mix" }
      [] q = "budget_3"   -> { Absent, "pre_approved", "planning", "need_guidance" }
      [] q = "property_1" -> { Absent, "villa", "open", "" }
      [] q = "property_2" -> { Absent, "5br_plus", "" }
      [] q = "decision_1" -> { Absent, "quick_decision", "partner_discuss",
                               "family_approval", "think_about", "[quick_decision]" }

\* The other question ids of the catalog, in catalog order: an answer map
\* holds the first n of them.
OtherIds ==
    << "profile_1", "profile_2", "profile_3", "property_3", "location_1",
       "location_2", "timeline_2", "lifestyle_1", "lifestyle_2", "investment_1",
       "investment_2", "priorities_1", "priorities_2", "decision_2",
       "contact_1", "contact_2" >>

\* How many of the other ids are answered.
OtherCounts == { 0, 8, 13 }

AnswerMap(chosen, n) ==
    [ q \in { x \in ScoredIds : chosen[x] # Absent } \cup { OtherIds[i] : i \in 1..n } |->
        IF q \in ScoredIds
        THEN Answer(chosen[q], FALSE, None)
        ELSE CHOOSE a \in AnswerInputs(q) : TRUE ]

ScoreInit ==
    /\ current_category_index = 0
    /\ current_question_index = 0
    /\ \E t1 \in ScoreInputs("timeline_1"), b1 \in ScoreInputs("budget_1"),
          b2 \in ScoreInputs("budget_2"), b3 \in ScoreInputs("budget_3"),
          p1 \in ScoreInputs("property_1"), p2 \in ScoreInputs("property_2"),
          d1 \in ScoreInputs("decision_1"), n \in OtherCounts :
          responses = AnswerMap([ timeline_1 |-> t1, budget_1 |-> b1, budget_2 |-> b2,
                                  budget_3 |-> b3, property_1 |-> p1, property_2 |-> p2,
                                  decision_1 |-> d1 ], n)
    /\ additional_notes = EmptyDict
    /\ skipped_categories = << >>
    /\ raised = None
    /\ categorization = NoCategorization
    /\ OutsideInit

ScoreNext == categorize_user

ScoreSpec == ScoreInit /\ [][ScoreNext]_vars

(***************************************************************************)
(* The persona on its own: categorize_user applied to answer maps drawn   *)
(* from the values _identify_persona tells apart.                          *)
(***************************************************************************)
\* The answer map that holds chosen[q] for every q not chosen Absent.
ChosenMap(chosen) ==
    [ q \in { x \in DOMAIN chosen : chosen[x] # Absent } |->
        Answer(chosen[q], FALSE, None) ]

\* The values drawn for the question ids _identify_persona reads: catalog
\* options on both sides of every test, and an empty investment goal.
PersonaInputs(q) ==
    CASE q = "profile_2"    -> { Absent, "first_time", "owns_property", "previous_owner" }
      [] q = "profile_3"    -> { Absent, "family", "investment", "single" }
      [] q = "budget_1"     -> { Absent, "under_1m", "1m_2m", "2m_3.5m", "3.5m_5m", "5m_plus" }
      [] q = "property_1"   -> { Absent, "villa", "apartment" }
      [] q = "lifestyle_1"  -> { Absent, "very_important", "somewhat", "not_factor" }
      [] q = "investment_1" -> { Absent, "rental", "" }

PersonaInit ==
    /\ current_category_index = 0
    /\ current_question_index = 0
    /\ \E p2 \in PersonaInputs("profile_2"), p3 \in PersonaInputs("profile_3"),
          b1 \in PersonaInputs("budget_1"), pr \in PersonaInputs("property_1"),
          l1 \in PersonaInputs("lifestyle_1"), i1 \in PersonaInputs("investment_1") :
          responses = ChosenMap([ profile_2 |-> p2, profile_3 |-> p3, budget_1 |-> b1,
                                  property_1 |-> pr, lifestyle_1 |-> l1,
                                  investment_1 |-> i1 ])
    /\ additional_notes = EmptyDict
    /\ skipped_categories = << >>
    /\ raised = None
    /\ categorization = NoCategorization
    /\ OutsideInit

PersonaNext == categorize_user

PersonaSpec == PersonaInit /\ [][PersonaNext]_vars

(***************************************************************************)
(* The urgency and the services on their own: categorize_user applied to  *)
(* answer maps drawn from the values _determine_urgency and               *)
(* _identify_service_needs tell apart.                                     *)
(***************************************************************************)
ServiceInputs(q) ==
    CASE q = "timeline_1" -> { Absent, "asap", "3_months", "3_6_months", "planning", "[asap]" }
      [] q = "timeline_2" -> { Absent, "lease_ending", "new_to_dubai", "planned" }
      [] q = "budget_2"   -> { Absent, "cash", "mortgage", "mix" }
      [] q = "budget_3"   -> { Absent, "need_guidance", "planning", "pre_approved" }
      [] q = "profile_2"  -> { Absent, "first_time", "owns_property" }
      [] q = "profile_3"  -> { Absent, "investment", "family" }
      [] q = "decision_2" -> { Absent, "virtual_first", "in_person", "both" }

ServiceInit ==
    /\ current_category_index = 0
    /\ current_question_index = 0
    /\ \E t1 \in ServiceInputs("timeline_1"), t2 \in ServiceInputs("timeline_2"),
          b2 \in ServiceInputs("budget_2"), b3 \in ServiceInputs("budget_3"),
          p2 \in ServiceInputs("profile_2"), p3 \in ServiceInputs("profile_3"),
          d2 \in ServiceInputs("decision_2") :
          responses = ChosenMap([ timeline_1 |-> t1, timeline_2 |-> t2, budget_2 |-> b2,
                                  budget_3 |-> b3, profile_2 |-> p2, profile_3 |-> p3,
                                  decision_2 |-> d2 ])
    /\ additional_notes = EmptyDict
    /\ skipped_categories = << >>
    /\ raised = None
    /\ categorization = NoCategorization
    /\ OutsideInit

ServiceNext == categorize_user

ServiceSpec == ServiceInit /\ [][ServiceNext]_vars

(***************************************************************************)
(* The recommendations on their own: categorize_user applied to answer    *)
(* maps that reach every buyer tier and several personas, each with       *)
(* several lists of services.                                              *)
(***************************************************************************)
RecommendInputs(q) ==
    CASE q = "timeline_1"  -> { Absent, "asap", "3_6_months" }
      [] q = "budget_1"    -> { Absent, "5m_plus", "1m_2m" }
      [] q = "budget_2"    -> { Absent, "cash" }
      [] q = "property_1"  -> { Absent, "villa" }
      [] q = "decision_1"  -> { Absent, "quick_decision" }
      [] q = "profile_2"   -> { Absent, "first_time" }
      [] q = "profile_3"   -> { Absent, "family", "investment" }
      [] q = "lifestyle_1" -> { Absent, "very_important" }
      [] q = "decision_2"  -> { Absent, "virtual_first", "in_person" }

RecommendInit ==
    /\ current_category_index = 0
    /\ current_question_index = 0
    /\ \E t1 \in RecommendInputs("timeline_1"), b1 \in RecommendInputs("budget_1"),
          b2 \in RecommendInputs("budget_2"), pr \in RecommendInputs("property_1"),
          d1 \in RecommendInputs("decision_1"), p2 \in RecommendInputs("profile_2"),
          p3 \in RecommendInputs("profile_3"), l1 \in RecommendInputs("lifestyle_1"),
          d2 \in RecommendInputs("decision_2") :
          responses = ChosenMap([ timeline_1 |-> t1, budget_1 |-> b1, budget_2 |-> b2,
                                  property_1 |-> pr, decision_1 |-> d1, profile_2 |-> p2,
                                  profile_3 |-> p3, lifestyle_1 |-> l1, decision_2 |-> d2 ])
    /\ additional_notes = EmptyDict
    /\ skipped_categories = << >>
    /\ raised = None
    /\ categorization = NoCategorization
    /\ OutsideInit

RecommendNext == categorize_user

RecommendSpec == RecommendInit /\ [][RecommendNext]_vars

(***************************************************************************)
(* categorize_user among notes and skips: the answers stay as they are    *)
(* while the notes and the completion info change between the calls.      *)
(***************************************************************************)
CategorizeInputs(q) ==
    CASE q = "timeline_1" -> { Absent, "asap", "[asap]" }
      [] q = "budget_1"   -> { Absent, "5m_plus" }
      [] q = "profile_3"  -> { Absent, "family", "investment" }
      [] q = "decision_2" -> { Absent, "in_person" }

CategorizeInit ==
    /\ current_category_index = 0
    /\ current_question_index = 0
    /\ \E t1 \in CategorizeInputs("timeline_1"), b1 \in CategorizeInputs("budget_1"),
          p3 \in CategorizeInputs("profile_3"), d2 \in CategorizeInputs("decision_2") :
          responses = ChosenMap([ timeline_1 |-> t1, budget_1 |-> b1, profile_3 |-> p3,
                                  decision_2 |-> d2 ])
    /\ additional_notes = EmptyDict
    /\ skipped_categories = << >>
    /\ raised = None
    /\ categorization = NoCategorization
    /\ OutsideInit

CategorizeNext ==
    \/ categorize_user
    \/ /\ TotalNotes(additional_notes) < MaxNotes
       /\ \E c \in NoteCategoryInputs : \E n \in NoteInputs : add_category_note(c, n)
    \/ /\ Len(skipped_categories) < MaxSkips
       /\ \E c \in SkipInputsAlone : skip_category(c)

CategorizeSpec == CategorizeInit /\ [][CategorizeNext]_vars

(***************************************************************************)
(* Answer maps that grow: an answer for a question id that has none is    *)
(* recorded, and the lead score is computed before and after.             *)
(***************************************************************************)
\* The values drawn for the question ids the scoring reads.
ExtendInputs(q) ==
    CASE q = "timeline_1" -> { Absent, "asap", "planning", "[asap]" }
      [] q = "budget_1"   -> { Absent, "5m_plus", "flexible" }
      [] q = "budget_2"   -> { Absent, "cash", "mortgage" }
      [] q = "budget_3"   -> { Absent, "pre_approved", "planning", "need_guidance" }
      [] q = "property_1" -> { Absent, "villa", "open" }
      [] q = "property_2" -> { Absent, "5br_plus" }
      [] q = "decision_1" -> { Absent, "quick_decision", "think_about" }

ExtendInit ==
    /\ current_category_index = 0
    /\ current_question_index = 0
    /\ \E t1 \in ExtendInputs("timeline_1"), b1 \in ExtendInputs("budget_1"),
          b2 \in ExtendInputs("budget_2"), b3 \in ExtendInputs("budget_3"),
          p1 \in ExtendInputs("property_1"), p2 \in ExtendInputs("property_2"),
          d1 \in ExtendInputs("decision_1"), n \in OtherCounts :
          responses = AnswerMap([ timeline_1 |-> t1, budget_1 |-> b1, budget_2 |-> b2,
                                  budget_3 |-> b3, property_1 |-> p1, property_2 |-> p2,
                                  decision_1 |-> d1 ], n)
    /\ additional_notes = EmptyDict
    /\ skipped_categories = << >>
    /\ raised = None
    /\ categorization = NoCategorization
    /\ OutsideInit

MaxExtensions == 1     \* answers recorded after ExtendInit

\* The answers recorded for an id that has none: every value of
\* ExtendInputs for an id the scoring reads, the answer of AnswerInputs for
\* another id of the catalog.
ExtendAnswers(q) ==
    IF q \in ScoredIds
    THEN { Answer(v, FALSE, None) : v \in ExtendInputs(q) \ { Absent } }
    ELSE AnswerInputs(q)

ExtendNext ==
    \/ categorize_user
    \/ /\ current_category_index = 0
       /\ current_question_index < MaxExtensions
       /\ \E q \in QuestionIds \ DOMAIN responses : \E a \in ExtendAnswers(q) :
             process_response(q, a)

ExtendSpec == ExtendInit /\ [][ExtendNext]_vars

(***************************************************************************)
(* The conversation router (routers/conversation.py): one ConversationFlow *)
(* per session id in the module-level dict conversation_flows.             *)
(***************************************************************************)
\* The session ids of the requests.
SessionIds == { "s1", "s2" }

\* The session whose caller answers, skips and adds notes; the caller of
\* the other session only starts it and reads.
AnsweringSession == "s1"

\* ConversationFlow() (conversation_flow.py lines 25-34)
NewFlow ==
    [ current_category_index |-> 0, current_question_index |-> 0,
      responses |-> EmptyDict, additional_notes |-> EmptyDict,
      skipped_categories |-> << >> ]

\* flow.restart_flow() on the state f of a flow
FlowRestart(f) ==
    [ f EXCEPT !.current_category_index = 0, !.current_question_index = 0 ]

\* /start that replaces the flow of a session that exists by a new one.
StartFlowAlwaysNew(flows, sid) == NewFlow

\* Lines 42-47 of /start: a new flow for a new session id, restart_flow()
\* on the flow of a session that exists.
StartFlow(flows, sid) ==
    IF sid \notin DOMAIN flows THEN NewFlow ELSE FlowRestart(flows[sid])

\* flow.get_current_question(): the state of the flow after the walk
FlowWalk(f) ==
    LET w == Walk(f.current_category_index, f.current_question_index, f.responses) IN
    [ f EXCEPT !.current_category_index = w.ci, !.current_question_index = w.qi ]

\* flow.get_current_question(): the id of the question returned
FlowQuestion(f) ==
    Walk(f.current_category_index, f.current_question_index, f.responses).q

\* flow.process_response(question_id, answer, ...): the state of the flow
\* after the call, also when the call raises in the terminal state.
FlowProcessResponse(f, question_id, answer) ==
    IF IsTerminal(f.current_category_index)
    THEN [ f EXCEPT !.responses = DictSet(f.responses, question_id, answer),
                    !.current_question_index = f.current_question_index + 1 ]
    ELSE LET c == Advance(f.current_category_index, f.current_question_index) IN
         [ f EXCEPT !.responses = DictSet(f.responses, question_id, answer),
                    !.current_category_index = c.ci,
                    !.current_question_index = c.qi ]

\* flow.skip_category(category_id)
FlowSkipCategory(f, category_id) ==
    IF SkipMovesCursor(category_id, f.current_category_index)
    THEN [ f EXCEPT !.skipped_categories = Append(f.skipped_categories, category_id),
                    !.current_category_index = f.current_category_index + 1,
                    !.current_question_index = 0 ]
    ELSE [ f EXCEPT !.skipped_categories = Append(f.skipped_categories, category_id) ]

\* flow.add_category_note(category_id, note)
FlowAddCategoryNote(f, category_id, note) ==
    [ f EXCEPT !.additional_notes =
        DictSet(f.additional_notes, category_id,
                Append(IF category_id \in DOMAIN f.additional_notes
                       THEN f.additional_notes[category_id] ELSE << >>, note)) ]

\* flow.get_summary()
FlowSummary(f) ==
    GetSummary(f.current_category_index, f.responses, f.additional_notes,
               f.skipped_categories)

Response(handler, sid, code, status, question, cat) ==
    [ handler |-> handler, session_id |-> sid, code |-> code, status |-> status,
      question |-> question, categorization |-> cat ]

\* "raise HTTPException(status_code=404, ...)" when the session id is not
\* in conversation_flows: nothing is stored.
NotFound(handler, sid) ==
    /\ http' = Response(handler, sid, 404, None, None, NoCategorization)
    /\ UNCHANGED conversation_flows

\* "except Exception: raise HTTPException(status_code=500, ...)"
ServerError(handler, sid) == Response(handler, sid, 500, None, None, NoCategorization)

\* The end of /question (lines 74-96) and of /answer (lines 123-148) on
\* the state f of the flow after get_current_question(): "complete" with
\* a categorization when no question is left and the flow is complete,
\* "in_progress" with the question otherwise; an exception of
\* categorize_user becomes HTTP 500.
QuestionOrCategorization(handler, sid, f) ==
    IF FlowQuestion(f) = None /\ IsComplete(f.current_category_index)
    THEN IF LeadScoreRaises(f.responses)
         THEN ServerError(handler, sid)
         ELSE Response(handler, sid, 200, "complete", None,
                       CategorizeUser(f.responses, f.additional_notes, FlowSummary(f)))
    ELSE Response(handler, sid, 200, "in_progress", FlowQuestion(f), NoCategorization)

\* POST /start (lines 38-62)
start_conversation(sid) ==
    LET f == FlowWalk(StartFlow(conversation_flows, sid)) IN
    /\ conversation_flows' = DictSet(conversation_flows, sid, f)
    /\ http' = Response("start", sid, 200, "started", FlowQuestion(f), NoCategorization)
    /\ UNCHANGED not_router_vars

\* GET /question/{session_id} (lines 64-101)
router_get_current_question(sid) ==
    /\ IF sid \notin DOMAIN conversation_flows
       THEN NotFound("question", sid)
       ELSE LET f == FlowWalk(conversation_flows[sid]) IN
            /\ conversation_flows' = DictSet(conversation_flows, sid, f)
            /\ http' = QuestionOrCategorization("question", sid, f)
    /\ UNCHANGED not_router_vars

\* POST /answer (lines 103-153). In the terminal state process_response
\* raises after it stored the answer and incremented the question index;
\* the handler answers with HTTP 500.
submit_answer(sid, question_id, answer) ==
    /\ IF sid \notin DOMAIN conversation_flows
       THEN NotFound("answer", sid)
       ELSE LET f0 == conversation_flows[sid]
                f1 == FlowProcessResponse(f0, question_id, answer)
            IN  IF IsTerminal(f0.current_category_index)
                THEN /\ f0.current_question_index < MaxTerminalIndex
                     /\ conversation_flows' = DictSet(conversation_flows, sid, f1)
                     /\ http' = ServerError("answer", sid)
                ELSE /\ conversation_flows' = DictSet(conversation_flows, sid, FlowWalk(f1))
                     /\ http' = QuestionOrCategorization("answer", sid, FlowWalk(f1))
    /\ UNCHANGED not_router_vars

\* POST /category-note (lines 155-173)
router_add_category_note(sid, category_id, note) ==
    /\ IF sid \notin DOMAIN conversation_flows
       THEN NotFound("category-note", sid)
       ELSE /\ conversation_flows' =
                 DictSet(conversation_flows, sid,
                         FlowAddCategoryNote(conversation_flows[sid], category_id, note))
            /\ http' = Response("category-note", sid, 200, "success", None, NoCategorization)
    /\ UNCHANGED not_router_vars

\* POST /skip-category/{session_id}/{category_id} (lines 175-199)
router_skip_category(sid, category_id) ==
    /\ IF sid \notin DOMAIN conversation_flows
       THEN NotFound("skip-category", sid)
       ELSE LET f == FlowWalk(FlowSkipCategory(conversation_flows[sid], category_id)) IN
            /\ conversation_flows' = DictSet(conversation_flows, sid, f)
            /\ http' = Response("skip-category", sid, 200, "skipped", FlowQuestion(f),
                                NoCategorization)
    /\ UNCHANGED not_router_vars

\* GET /timeline/{session_id} (lines 201-218)
router_get_timeline_status(sid) ==
    /\ IF sid \notin DOMAIN conversation_flows
       THEN NotFound("timeline", sid)
       ELSE /\ http' = Response("timeline", sid, 200, None, None, NoCategorization)
            /\ UNCHANGED conversation_flows
    /\ UNCHANGED not_router_vars

\* POST /schedule-later (lines 220-247)
schedule_for_later(sid) ==
    /\ IF sid \notin DOMAIN conversation_flows
       THEN NotFound("schedule-later", sid)
       ELSE /\ http' = Response("schedule-later", sid, 200, "scheduled", None,
                                NoCategorization)
            /\ UNCHANGED conversation_flows
    /\ UNCHANGED not_router_vars

\* GET /summary/{session_id} (lines 249-280): is_complete() is tested
\* without a walk of the cursor.
get_conversation_summary(sid) ==
    /\ IF sid \notin DOMAIN conversation_flows
       THEN NotFound("summary", sid)
       ELSE LET f == conversation_flows[sid] IN
            /\ http' = IF IsComplete(f.current_category_index)
                       THEN IF LeadScoreRaises(f.responses)
                            THEN ServerError("summary", sid)
                            ELSE Response("summary", sid, 200, None, None,
                                          CategorizeUser(f.responses, f.additional_notes,
                                                         FlowSummary(f)))
                       ELSE Response("summary", sid, 200, None, None, NoCategorization)
            /\ UNCHANGED conversation_flows
    /\ UNCHANGED not_router_vars

\* The question id of an /answer request for session sid: the question at
\* the cursor; the last question of the catalog once there is none; the
\* first question for a session that does not exist.
RouterSubmitInputs(sid) ==
    IF sid \notin DOMAIN conversation_flows THEN { "profile_1" }
    ELSE IF FlowQuestion(conversation_flows[sid]) = None THEN { "contact_2" }
    ELSE { FlowQuestion(conversation_flows[sid]) }

\* The answers of an /answer request: one option per question, and for
\* timeline_1 also a list (AnswerRequest.answer is Any, line 23).
RouterAnswerInputs(q) ==
    CASE q = "timeline_1" -> { Answer("asap", FALSE, None), Answer("[asap]", FALSE, None) }
      [] q = "profile_3"  -> { Answer("family", FALSE, None) }
      [] q = "budget_2"   -> { Answer("mortgage", FALSE, None) }
      [] OTHER            -> AnswerInputs(q)

\* The category of a /skip-category and of a /category-note request.
RouterCategoryInputs == { "budget" }

MaxRouterSkips == 1    \* skips of one session in RouterSpec

\* The sessions a request that changes a flow is made for: the answering
\* session, and every session that does not exist.
ChangingSessions ==
    { sid \in SessionIds : sid = AnsweringSession \/ sid \notin DOMAIN conversation_flows }

RouterNext ==
    \/ \E sid \in SessionIds : start_conversation(sid) /\ UNCHANGED event_loop
    \/ \E sid \in SessionIds : router_get_current_question(sid) /\ UNCHANGED event_loop
    \/ \E sid \in ChangingSessions :
         \E q \in RouterSubmitInputs(sid) : \E a \in RouterAnswerInputs(q) :
            submit_answer(sid, q, a) /\ UNCHANGED event_loop
    \/ \E sid \in ChangingSessions :
          /\ sid \in DOMAIN conversation_flows
                => TotalNotes(conversation_flows[sid].additional_notes) < MaxNotes
          /\ \E c \in RouterCategoryInputs : \E n \in NoteInputs :
                router_add_category_note(sid, c, n)
          /\ UNCHANGED event_loop
    \/ \E sid \in ChangingSessions :
          /\ sid \in DOMAIN conversation_flows
                => Len(conversation_flows[sid].skipped_categories) < MaxRouterSkips
          /\ \E c \in RouterCategoryInputs : router_skip_category(sid, c)
          /\ UNCHANGED event_loop
    \/ \E sid \in SessionIds : router_get_timeline_status(sid) /\ UNCHANGED event_loop
    \/ \E sid \in SessionIds : schedule_for_later(sid) /\ UNCHANGED event_loop
    \/ \E sid \in SessionIds : get_conversation_summary(sid) /\ UNCHANGED event_loop

RouterSpec == Init /\ [][RouterNext]_vars

(***************************************************************************)
(* Concurrent requests for one session.  The event loop accepts a batch   *)
(* of requests, one per client, and runs their handlers in any order; a   *)
(* handler that awaited something would be suspended at the await and     *)
(* resumed later, other handlers running in between.                      *)
(***************************************************************************)
MaxConcurrent == 2     \* requests of one batch

Clients == 1..MaxConcurrent

NoAnswer == Answer(None, FALSE, None)

Request(client, handler, question_id, answer, category_id, note) ==
    [ client |-> client, handler |-> handler, question_id |-> question_id,
      answer |-> answer, category_id |-> category_id, note |-> note ]

\* The requests a client makes for the answering session: /start,
\* /question, /answer for the question at the cursor, /skip-category and
\* /category-note while the bounds of RouterSpec allow another one.
RequestInputs(client) ==
    LET sid == AnsweringSession
        exists == sid \in DOMAIN conversation_flows
    IN  { Request(client, "start", None, NoAnswer, None, None),
          Request(client, "question", None, NoAnswer, None, None) }
        \cup UNION { { Request(client, "answer", q, a, None, None) :
                          a \in RouterAnswerInputs(q) } : q \in RouterSubmitInputs(sid) }
        \cup { Request(client, "skip-category", None, NoAnswer, c, None) :
                  c \in { x \in RouterCategoryInputs :
                            exists => Len(conversation_flows[sid].skipped_categories)
                                         < MaxRouterSkips } }
        \cup { Request(client, "category-note", None, NoAnswer, c, n) :
                  c \in { x \in RouterCategoryInputs :
                            exists => TotalNotes(conversation_flows[sid].additional_notes)
                                         < MaxNotes },
                  n \in NoteInputs }

\* A handler that yields the event loop between process_response and
\* get_current_question, as "await" inside /answer would.
HandlerAwaitsInAnswer(handler) == handler = "answer"

\* Whether the handler awaits something between its change of the flow
\* and get_current_question(): the handlers of routers/conversation.py are
\* "async def" functions without any await, and the methods of
\* ConversationFlow they call are synchronous.
HandlerAwaits(handler) == FALSE

\* "if session_id not in conversation_flows: raise HTTPException(404)"
RequestNotFound(flows, r) ==
    r.handler # "start" /\ AnsweringSession \notin DOMAIN flows

\* The handler's change of the flow before get_current_question():
\* restart_flow() or a new flow, process_response, skip_category,
\* add_category_note; /question changes nothing before the walk.
HandlerChange(flows, r) ==
    LET sid == AnsweringSession IN
    CASE r.handler = "start" -> DictSet(flows, sid, StartFlow(flows, sid))
      [] r.handler = "question" -> flows
      [] r.handler = "answer" ->
            DictSet(flows, sid, FlowProcessResponse(flows[sid], r.question_id, r.answer))
      [] r.handler = "skip-category" ->
            DictSet(flows, sid, FlowSkipCategory(flows[sid], r.category_id))
      [] r.handler = "category-note" ->
            DictSet(flows, sid, FlowAddCategoryNote(flows[sid], r.category_id, r.note))

\* process_response raises in the terminal state: /answer ends there.
HandlerChangeRaises(flows, r) ==
    /\ r.handler = "answer"
    /\ IsTerminal(flows[AnsweringSession].current_category_index)

\* The rest of the handler: get_current_question() on the flow, which
\* /category-note does not call.
HandlerRest(flows, r) ==
    IF r.handler = "category-note" THEN flows
    ELSE DictSet(flows, AnsweringSession, FlowWalk(flows[AnsweringSession]))

\* conversation_flows after the whole handler of request r ran on flows.
Handled(flows, r) ==
    IF RequestNotFound(flows, r) THEN flows
    ELSE IF HandlerChangeRaises(flows, r) THEN HandlerChange(flows, r)
    ELSE HandlerRest(HandlerChange(flows, r), r)

\* conversation_flows after the requests of batch ran one after the other
\* on flows, for every order of them.
RECURSIVE SequentialOutcomes(_, _)
SequentialOutcomes(flows, batch) ==
    IF batch = {} THEN { flows }
    ELSE UNION { SequentialOutcomes(Handled(flows, r), batch \ { r }) : r \in batch }

\* The handler of request r as the router runs it.
Handle(r) ==
    LET sid == AnsweringSession IN
    CASE r.handler = "start" -> start_conversation(sid)
      [] r.handler = "question" -> router_get_current_question(sid)
      [] r.handler = "answer" -> submit_answer(sid, r.question_id, r.answer)
      [] r.handler = "skip-category" -> router_skip_category(sid, r.category_id)
      [] r.handler = "category-note" -> router_add_category_note(sid, r.category_id, r.note)

\* Whether the handler of r is suspended at an await after its change of
\* the flow: it has a rest to run and did not raise before.
SuspendsAfterChange(flows, r) ==
    /\ HandlerAwaits(r.handler)
    /\ r.handler \in { "start", "answer", "skip-category" }
    /\ ~RequestNotFound(flows, r)
    /\ ~HandlerChangeRaises(flows, r)

\* The response of a handler that was resumed, from the flow f after
\* its get_current_question().
ResumedResponse(r, f) ==
    LET sid == AnsweringSession IN
    CASE r.handler = "start" ->
            Response("start", sid, 200, "started", FlowQuestion(f), NoCategorization)
      [] r.handler = "answer" -> QuestionOrCategorization("answer", sid, f)
      [] r.handler = "skip-category" ->
            Response("skip-category", sid, 200, "skipped", FlowQuestion(f),
                     NoCategorization)

\* The event loop accepts one request of every client, made at the same
\* time for the flows it finds.
accept_requests ==
    /\ event_loop.batch = {}
    /\ \E batch \in [ Clients -> UNION { RequestInputs(c) : c \in Clients } ] :
          /\ \A c \in Clients : batch[c].client = c
          /\ event_loop' = [ base |-> conversation_flows,
                             batch |-> { batch[c] : c \in Clients },
                             pending |-> { batch[c] : c \in Clients },
                             suspended |-> {} ]
    /\ UNCHANGED << flow_vars, raised, categorization, router_vars, returned, chat_vars >>

\* The event loop runs a request: a pending one up to its first await or,
\* without one, to its end; a suspended one from its await to its end.
run_request(r) ==
    IF r \in event_loop.suspended
    THEN /\ conversation_flows' = HandlerRest(conversation_flows, r)
         /\ http' = ResumedResponse(r, conversation_flows'[AnsweringSession])
         /\ event_loop' = [ event_loop EXCEPT !.suspended = @ \ { r } ]
         /\ UNCHANGED not_router_vars
    ELSE /\ r \in event_loop.pending
         /\ IF SuspendsAfterChange(conversation_flows, r)
            THEN /\ conversation_flows' = HandlerChange(conversation_flows, r)
                 /\ event_loop' = [ event_loop EXCEPT !.pending = @ \ { r },
                                                      !.suspended = @ \cup { r } ]
                 /\ UNCHANGED << http, not_router_vars >>
            ELSE /\ Handle(r)
                 /\ event_loop' = [ event_loop EXCEPT !.pending = @ \ { r } ]

\* The answer a single caller gave to question q before the concurrent
\* requests: the buyer's purpose for profile_3, the payment for budget_2,
\* an option of the catalog otherwise.
EarlierAnswer(q, purpose, payment) ==
    CASE q = "profile_3" -> Answer(purpose, FALSE, None)
      [] q = "budget_2"  -> Answer(payment, FALSE, None)
      [] OTHER           -> CHOOSE a \in AnswerInputs(q) : TRUE

\* The flow of a session after /start and k times /answer for the
\* question at the cursor, one request after the other.
RECURSIVE AnsweredFlow(_, _, _)
AnsweredFlow(k, purpose, payment) ==
    IF k = 0 THEN FlowWalk(NewFlow)
    ELSE LET f == AnsweredFlow(k - 1, purpose, payment)
             q == FlowQuestion(f)
         IN  IF q = None THEN f
             ELSE FlowWalk(FlowProcessResponse(f, q, EarlierAnswer(q, purpose, payment)))

\* The concurrent requests find no session, or the answering session at
\* any question of a buyer who answered the questions before it.
ConcurrentInit ==
    /\ current_category_index = 0
    /\ current_question_index = 0
    /\ responses = EmptyDict
    /\ additional_notes = EmptyDict
    /\ skipped_categories = << >>
    /\ raised = None
    /\ categorization = NoCategorization
    /\ \/ conversation_flows = EmptyDict
       \/ \E k \in 0..Cardinality(QuestionIds) :
          \E purpose \in { "family", "investment" } : \E payment \in { "cash", "mortgage" } :
             conversation_flows =
                DictSet(EmptyDict, AnsweringSession, AnsweredFlow(k, purpose, payment))
    /\ http = NoResponse
    /\ returned = None
    /\ event_loop = NoBatch
    /\ sessions = EmptyDict
    /\ in_flight = EmptyDict

ConcurrentNext ==
    \/ accept_requests
    \/ \E r \in event_loop.pending \cup event_loop.suspended : run_request(r)

ConcurrentSpec == ConcurrentInit /\ [][ConcurrentNext]_vars

(***************************************************************************)
(* The caller of one ConversationFlow who asks for the current question   *)
(* and answers the question it was given.                                  *)
(***************************************************************************)
\* The flow of the variables, as one state of a ConversationFlow.
ThisFlow ==
    [ current_category_index |-> current_category_index,
      current_question_index |-> current_question_index,
      responses |-> responses, additional_notes |-> additional_notes,
      skipped_categories |-> skipped_categories ]

\* The flow of the variables becomes f.
SetFlow(f) ==
    /\ current_category_index' = f.current_category_index
    /\ current_question_index' = f.current_question_index
    /\ responses' = f.responses
    /\ additional_notes' = f.additional_notes
    /\ skipped_categories' = f.skipped_categories

\* What a call of the caller leaves alone.
not_caller_vars == << categorization, router_vars, event_loop, chat_vars >>

\* The caller calls get_current_question() and keeps the id it returns.
current_question ==
    /\ SetFlow(FlowWalk(ThisFlow))
    /\ returned' = FlowQuestion(ThisFlow)
    /\ raised' = None
    /\ UNCHANGED not_caller_vars

\* The caller calls process_response for the id it was given. In the
\* terminal state (the flow was completed by a skip after the question was
\* given) the call raises IndexError.
submit_returned(answer) ==
    /\ returned # None
    /\ IsTerminal(current_category_index) => current_question_index < MaxTerminalIndex
    /\ SetFlow(FlowProcessResponse(ThisFlow, returned, answer))
    /\ raised' = IF IsTerminal(current_category_index) THEN "IndexError" ELSE None
    /\ returned' = None
    /\ UNCHANGED not_caller_vars

\* The caller calls restart_flow() and drops the id it was given.
restart ==
    /\ SetFlow(FlowRestart(ThisFlow))
    /\ returned' = None
    /\ raised' = None
    /\ UNCHANGED not_caller_vars

\* The category skipped between two calls of the caller: the one at the
\* cursor.
CallerSkipInputs ==
    IF IsTerminal(current_category_index) THEN {}
    ELSE { categories[current_category_index + 1] }

\* The category a note is added to between two calls of the caller.
CallerNoteInputs == { "budget" }

MaxCallerSkips == 1    \* skip_category calls in CallerSpec

\* The caller's loop with skip_category and add_category_note calls
\* between any two of its calls.
CallerNext ==
    \/ current_question
    \/ \E a \in AnswerInputs(returned) : submit_returned(a)
    \/ /\ Len(skipped_categories) < MaxCallerSkips
       /\ \E c \in CallerSkipInputs : skip_category(c)
    \/ /\ TotalNotes(additional_notes) < MaxNotes
       /\ \E c \in CallerNoteInputs : \E n \in NoteInputs : add_category_note(c, n)

CallerSpec == Init /\ [][CallerNext]_vars

\* The caller keeps going: it does not stop calling get_current_question
\* and does not stop answering a question it was given.
CallerFairSpec ==
    /\ Init
    /\ [][CallerNext]_vars
    /\ WF_vars(current_question)
    /\ WF_vars(\E a \in AnswerInputs(returned) : submit_returned(a))

\* One pass of the caller's loop, with notes and without skips.
PassNext ==
    \/ current_question
    \/ \E a \in AnswerInputs(returned) : submit_returned(a)
    \/ /\ TotalNotes(additional_notes) < MaxNotes
       /\ \E c \in CallerNoteInputs : \E n \in NoteInputs : add_category_note(c, n)

PassSpec == Init /\ [][PassNext]_vars

\* The caller's loop with restarts: a pass can be followed by another
\* one with other answers.
SecondPassNext ==
    \/ current_question
    \/ \E a \in AnswerInputs(returned) : submit_returned(a)
    \/ restart

SecondPassSpec == Init /\ [][SecondPassNext]_vars

(***************************************************************************)
(* The chat service (services/chat_service.py): sessions maps a session   *)
(* id to the roles of session["messages"], oldest first; in_flight maps   *)
(* the session id of a process_message call that has not returned to the  *)
(* call of the language model it is in.                                    *)
(***************************************************************************)
ChatSessionIds == { "c1", "c2" }

MaxMessages == 10      \* messages of one session

\* "del self.sessions[session_id]"
DictDel(d, k) == [ x \in DOMAIN d \ { k } |-> d[x] ]

\* self.get_session(session_id), created by create_session when there is
\* none: the messages of the session process_message works on.
GetOrCreateSession(sid) == IF sid \in DOMAIN sessions THEN sessions[sid] ELSE << >>

\* "len(session["messages"]) > 5 and len(session["messages"]) % 5 == 0"
AnalysisDue(messages) == Len(messages) > 5 /\ Len(messages) % 5 = 0

\* OpenAIService calls the synchronous client inside "async def" methods
\* that await nothing, so process_message never hands the event loop to
\* another call: a call starts only while no call is in flight.
EventLoopFree == DOMAIN in_flight = {}

\* process_message up to the call of get_chat_response: the session is
\* fetched or created and the user message is appended.
process_message(sid) ==
    /\ EventLoopFree
    /\ sessions' = DictSet(sessions, sid, Append(GetOrCreateSession(sid), "user"))
    /\ in_flight' = DictSet(in_flight, sid, "get_chat_response")
    /\ UNCHANGED << flow_vars, raised, categorization, router_vars, returned, event_loop >>

\* get_chat_response returns: the assistant message is appended, and the
\* requirements are analysed when the count is a multiple of five above
\* five; otherwise process_message returns.
chat_response_returns(sid) ==
    /\ sid \in DOMAIN in_flight
    /\ in_flight[sid] = "get_chat_response"
    /\ sessions' = DictSet(sessions, sid, Append(sessions[sid], "assistant"))
    /\ in_flight' = IF AnalysisDue(sessions'[sid])
                    THEN DictSet(in_flight, sid, "analyze_requirements")
                    ELSE DictDel(in_flight, sid)
    /\ UNCHANGED << flow_vars, raised, categorization, router_vars, returned, event_loop >>

\* get_chat_response raises: "except Exception" returns the error result
\* with the message count; the user message stays in the history.
chat_response_raises(sid) ==
    /\ sid \in DOMAIN in_flight
    /\ in_flight[sid] = "get_chat_response"
    /\ in_flight' = DictDel(in_flight, sid)
    /\ UNCHANGED << flow_vars, raised, categorization, router_vars, returned, event_loop,
                    sessions >>

\* analyze_requirements returns its analysis or its error dict (it raises
\* nothing), and process_message returns.
analysis_returns(sid) ==
    /\ sid \in DOMAIN in_flight
    /\ in_flight[sid] = "analyze_requirements"
    /\ in_flight' = DictDel(in_flight, sid)
    /\ UNCHANGED << flow_vars, raised, categorization, router_vars, returned, event_loop,
                    sessions >>

\* clear_session(session_id), when the session exists
clear_session(sid) ==
    /\ EventLoopFree
    /\ sid \in DOMAIN sessions
    /\ sessions' = DictDel(sessions, sid)
    /\ UNCHANGED << flow_vars, raised, categorization, router_vars, returned, event_loop,
                    in_flight >>

ChatNext ==
    \/ \E sid \in ChatSessionIds :
          /\ Len(GetOrCreateSession(sid)) + 2 <= MaxMessages
          /\ process_message(sid)
    \/ \E sid \in ChatSessionIds : chat_response_returns(sid)
    \/ \E sid \in ChatSessionIds : chat_response_raises(sid)
    \/ \E sid \in ChatSessionIds : analysis_returns(sid)
    \/ \E sid \in ChatSessionIds : clear_session(sid)

ChatSpec == Init /\ [][ChatNext]_vars

(***************************************************************************)
(* Properties of the flow engine.                                          *)
(***************************************************************************)
\* What get_current_question returns when called in the current state.
CurrentQuestion ==
    Walk(current_category_index, current_question_index, responses).q

\* Every question id a caller of the model submits.
SubmittedIds == QuestionIds \cup StrayQuestionIds

\* The cursor (c1, q1) is lexicographically before (c2, q2).
CursorBefore(c1, q1, c2, q2) == c1 < c2 \/ (c1 = c2 /\ q1 < q2)

\* C1: a question that carries a condition is returned by
\* current_question() only if every gating question has a recorded answer
\* whose value is in the allowed set; a gating question without a recorded
\* answer makes the condition fail.
C1_ConditionGate ==
    \A kv \in Condition(CurrentQuestion) :
        Answered(responses, kv[1]) /\ responses[kv[1]].value \in kv[2]

\* C2: every core operation completes without raising in every reachable
\* state, submit_answer in the terminal state included.
C2_NothingRaises == raised = None

\* C3 as stated: submit_answer(id, ...) followed immediately by
\* current_question() never returns the question with that id, whatever
\* id is submitted.
C3_NeverSameIdAnyId ==
    [][ \A q \in SubmittedIds :
            (\E a \in AnswerInputs(q) : process_response(q, a))
                => CurrentQuestion' # q ]_vars

\* C3 amended: submit_answer for the id of the question the cursor points
\* at, followed immediately by current_question(), never returns that
\* question, and the cursor has moved forward.
C3_NeverSameIdAtCursor ==
    [][ \A q \in CursorQuestionIds :
            (\E a \in AnswerInputs(q) : process_response(q, a))
                => /\ CurrentQuestion' # q
                   /\ CursorBefore(current_category_index, current_question_index,
                                   current_category_index', current_question_index') ]_vars

\* profile_1 was submitted at the cursor and nothing else was answered.
C3_Witness ==
    /\ DOMAIN responses = { "profile_1" }
    /\ current_category_index = 0
    /\ current_question_index = 1

\* C4: current_question() is an idempotent read: a second call right after
\* a first one returns the same question (or None) and leaves the cursor
\* where the first call put it.
C4_IdempotentRead ==
    LET w == Walk(current_category_index, current_question_index, responses) IN
    Walk(w.ci, w.qi, responses) = w

\* The first call auto-skipped budget_3 (budget_2 is "cash") and rolled
\* over into the property category.
C4_Witness ==
    /\ current_category_index = 2
    /\ current_question_index = 0
    /\ Answered(responses, "budget_2")
    /\ responses["budget_2"].value = "cash"
    /\ ~Answered(responses, "budget_3")
    /\ skipped_categories = << >>

\* C5: is_complete() is true exactly when the category index equals the
\* number of categories, and once true it stays true under every operation
\* but restart().
C5_CompleteMonotone ==
    /\ [](IsComplete(current_category_index)
            <=> current_category_index = NumCategories)
    /\ [][ (IsComplete(current_category_index) /\ ~restart_flow)
              => IsComplete(current_category_index') ]_vars

\* The flow is complete and a later submit_answer has acted on it.
C5_Witness ==
    /\ IsComplete(current_category_index)
    /\ raised = "IndexError"
    /\ skipped_categories # << >>

\* C6: 0 <= category index <= number of categories, and below the
\* terminal position 0 <= question index <= number of questions of the
\* current category.
C6_CursorInRange ==
    /\ current_category_index \in 0..NumCategories
    /\ current_category_index < NumCategories
          => current_question_index \in 0..Len(QuestionsAt(current_category_index))

\* The category index has reached the number of categories by answering
\* the last question.
C6_Witness ==
    /\ current_category_index = NumCategories
    /\ current_question_index = 0
    /\ Answered(responses, "contact_2")

\* C7: budget_3 is returned only if the recorded budget_2 answer is
\* "mortgage" or "mix"; when budget_2 is answered "cash" at the cursor the
\* next current_question() is property_1, with no answer recorded for
\* budget_3 by the skip.
C7_Budget3OnlyWhenFinancing ==
    /\ [](CurrentQuestion = "budget_3"
            => /\ Answered(responses, "budget_2")
               /\ responses["budget_2"].value \in { "mortgage", "mix" })
    /\ [][ ("budget_2" \in CursorQuestionIds
             /\ process_response("budget_2", Answer("cash", FALSE, None)))
              => /\ CurrentQuestion' = "property_1"
                 /\ (Answered(responses', "budget_3") <=> Answered(responses, "budget_3")) ]_vars

\* C8: restart() sets the cursor to (0,0), leaves responses,
\* additional_notes and skipped_categories unchanged, and the next
\* current_question() returns profile_1.
C8_RestartKeepsAnswers ==
    [][ restart_flow
          => /\ current_category_index' = 0
             /\ current_question_index' = 0
             /\ responses' = responses
             /\ additional_notes' = additional_notes
             /\ skipped_categories' = skipped_categories
             /\ CurrentQuestion' = "profile_1" ]_vars

\* restart() has acted on a completed flow that holds answers, a note and
\* a skipped category.
C8_Witness ==
    /\ current_category_index = 0
    /\ current_question_index = 0
    /\ Answered(responses, "contact_2")
    /\ DOMAIN additional_notes # {}
    /\ skipped_categories # << >>

Present(resp, q) == q \in DOMAIN resp

\* The scoring table, factor by factor, with "present" read as "has a
\* recorded answer".
TableLeadScore(resp) ==
    LET timeline == GetValue(resp, "timeline_1")
        budget   == GetValue(resp, "budget_1")
        payment  == GetValue(resp, "budget_2")
        bank     == GetValue(resp, "budget_3")
        ptype    == GetValue(resp, "property_1")
        decision == GetValue(resp, "decision_1")
        count    == Cardinality(DOMAIN resp)
    IN  Min(100,
          (CASE timeline = "asap" -> 30 [] timeline = "3_months" -> 25
             [] timeline = "3_6_months" -> 15 [] timeline = "6_12_months" -> 10
             [] timeline = "planning" -> 5 [] OTHER -> 0)
        + (IF Present(resp, "budget_1") /\ budget # "flexible" THEN 20
           ELSE IF Present(resp, "budget_1") /\ budget = "flexible" THEN 10 ELSE 0)
        + (IF payment = "cash" THEN 15
           ELSE IF bank = "pre_approved" THEN 15
           ELSE IF payment \in { "mortgage", "mix" } /\ bank = "planning" THEN 10
           ELSE IF payment \in { "mortgage", "mix" } THEN 5 ELSE 0)
        + (IF Present(resp, "property_1") /\ ptype # "open" THEN 8 ELSE 0)
        + (IF Present(resp, "property_2") THEN 7 ELSE 0)
        + (CASE decision = "quick_decision" -> 10 [] decision = "partner_discuss" -> 7
             [] decision = "family_approval" -> 5 [] decision = "think_about" -> 3
             [] OTHER -> 0)
        + (IF count >= 20 THEN 10 ELSE IF count >= 15 THEN 8
           ELSE IF count >= 10 THEN 5 ELSE 3))

\* "present" as the code reads it: a recorded answer whose value is not
\* empty.
PresentNonEmpty(resp, q) == q \in DOMAIN resp /\ resp[q].value \notin { None, "", "[]" }

\* The same table with "present" read as "has a recorded, non-empty value".
TableLeadScoreNonEmpty(resp) ==
    LET timeline == GetValue(resp, "timeline_1")
        budget   == GetValue(resp, "budget_1")
        payment  == GetValue(resp, "budget_2")
        bank     == GetValue(resp, "budget_3")
        ptype    == GetValue(resp, "property_1")
        decision == GetValue(resp, "decision_1")
        count    == Cardinality(DOMAIN resp)
    IN  Min(100,
          (CASE timeline = "asap" -> 30 [] timeline = "3_months" -> 25
             [] timeline = "3_6_months" -> 15 [] timeline = "6_12_months" -> 10
             [] timeline = "planning" -> 5 [] OTHER -> 0)
        + (IF PresentNonEmpty(resp, "budget_1") /\ budget # "flexible" THEN 20
           ELSE IF PresentNonEmpty(resp, "budget_1") /\ budget = "flexible" THEN 10 ELSE 0)
        + (IF payment = "cash" THEN 15
           ELSE IF bank = "pre_approved" THEN 15
           ELSE IF payment \in { "mortgage", "mix" } /\ bank = "planning" THEN 10
           ELSE IF payment \in { "mortgage", "mix" } THEN 5 ELSE 0)
        + (IF PresentNonEmpty(resp, "property_1") /\ ptype # "open" THEN 8 ELSE 0)
        + (IF PresentNonEmpty(resp, "property_2") THEN 7 ELSE 0)
        + (CASE decision = "quick_decision" -> 10 [] decision = "partner_discuss" -> 7
             [] decision = "family_approval" -> 5 [] decision = "think_about" -> 3
             [] OTHER -> 0)
        + (IF count >= 20 THEN 10 ELSE IF count >= 15 THEN 8
           ELSE IF count >= 10 THEN 5 ELSE 3))

C12_PersonaFirstMatch ==
    categorization.returned =>
        LET who    == GetValue(responses, "profile_3")
            first  == GetValue(responses, "profile_2")
            budget == GetValue(responses, "budget_1")
            ptype  == GetValue(responses, "property_1")
            family == who = "family"
                      \/ GetValue(responses, "lifestyle_1") \in { "very_important", "somewhat" }
            invest == who = "investment" \/ PresentNonEmpty(responses, "investment_1")
            luxury == budget \in { "3.5m_5m", "5m_plus" } /\ ptype = "villa"
            value  == budget \in { "under_1m", "1m_2m" } /\ who # "investment"
        IN  categorization.persona =
              (CASE family                  -> "family_focused"
                 [] ~family /\ invest       -> "investment_minded"
                 [] ~family /\ ~invest /\ luxury -> "luxury_seeker"
                 [] ~family /\ ~invest /\ ~luxury /\ first = "first_time" -> "first_timer"
                 [] ~family /\ ~invest /\ ~luxury /\ first # "first_time" /\ value
                                            -> "value_hunter"
                 [] ~family /\ ~invest /\ ~luxury /\ first # "first_time" /\ ~value
                      /\ first = "owns_property" -> "upgrader"
                 [] OTHER                   -> "general_buyer")

\* A map that matches the family, the investment and the luxury predicate
\* has been categorized.
C12_Witness ==
    /\ categorization.returned
    /\ categorization.persona = "family_focused"
    /\ GetValue(responses, "lifestyle_1") = "somewhat"
    /\ GetValue(responses, "profile_3") = "investment"
    /\ GetValue(responses, "budget_1") = "5m_plus"
    /\ GetValue(responses, "property_1") = "villa"

\* C13 (checked under PersonaSpec): categorize on the empty answer map
\* returns buyer type info_seeker, persona general_buyer, urgency low and
\* the service needs {property_matching, viewing_arrangement}.
C13_EmptyMapDefaults ==
    (categorization.returned /\ DOMAIN responses = {}) =>
        /\ categorization.buyer_type.type = "info_seeker"
        /\ categorization.persona = "general_buyer"
        /\ categorization.urgency = "low"
        /\ { categorization.service_needs[i] :
                i \in 1..Len(categorization.service_needs) }
             = { "property_matching", "viewing_arrangement" }

\* The empty answer map has been categorized, with the score 3 of the
\* engagement factor alone.
C13_Witness ==
    /\ categorization.returned
    /\ responses = EmptyDict
    /\ categorization.lead_score = 3

\* The answer map holds the six answers of a buyer who is ready to buy.
ReadyBuyer(resp) ==
    /\ GetValue(resp, "timeline_1") = "asap"
    /\ GetValue(resp, "budget_1") = "5m_plus"
    /\ GetValue(resp, "budget_2") = "cash"
    /\ GetValue(resp, "property_1") = "villa"
    /\ GetValue(resp, "property_2") = "5br_plus"
    /\ GetValue(resp, "decision_1") = "quick_decision"

\* C14 (checked under ScoreSpec): for every answer map that contains
\* timeline_1 = asap, budget_1 = 5m_plus, budget_2 = cash, property_1 =
\* villa, property_2 = 5br_plus, decision_1 = quick_decision and at least
\* 10 answers, categorize returns lead_score >= 80 and serious_buyer.
C14_ReadyBuyerIsSerious ==
    ( /\ ReadyBuyer(responses)
      /\ Cardinality(DOMAIN responses) >= 10
      /\ (categorization.returned \/ raised # None) )
        => /\ categorization.returned
           /\ categorization.lead_score >= 80
           /\ categorization.buyer_type.type = "serious_buyer"

\* Such a map, of 15 answers with a budget_3 answer among them, has been
\* categorized.
C14_Witness ==
    /\ categorization.returned
    /\ ReadyBuyer(responses)
    /\ Cardinality(DOMAIN responses) = 15
    /\ GetValue(responses, "budget_3") = "need_guidance"

\* C15 (checked under ScoreSpec): categorize never fails on an answer
\* map the flow engine can have stored, values it accepted without
\* validation included.
C15_CategorizeNeverFails == raised # "TypeError"

(***************************************************************************)
(* Frame properties of the flow engine (checked under Spec).               *)
(***************************************************************************)
\* C16: submit_answer(id, v, ...) sets responses[id] to the new answer,
\* replacing an earlier one, leaves the answer of every other question id
\* unchanged, and never moves the cursor backwards.
C16_SubmitSetsOneAnswer ==
    [][ \A q \in SubmitInputs : \A a \in AnswerInputs(q) :
            process_response(q, a)
                => /\ DOMAIN responses' = DOMAIN responses \cup { q }
                   /\ responses'[q] = a
                   /\ \A o \in DOMAIN responses \ { q } : responses'[o] = responses[o]
                   /\ ~CursorBefore(current_category_index', current_question_index',
                                    current_category_index, current_question_index) ]_vars

\* In a second pass (contact_2 is answered) budget_2 has just been
\* submitted again, now as "cash", next to an earlier budget_3 answer.
C16_Witness ==
    /\ Answered(responses, "contact_2")
    /\ Answered(responses, "budget_3")
    /\ GetValue(responses, "budget_2") = "cash"
    /\ current_category_index = 1
    /\ current_question_index = 2
    /\ raised = None

\* C17: no core operation removes an answer: across submit_answer,
\* skip_category, add_note, current_question and restart the set of
\* answered question ids only grows.
C17_AnswersOnlyGrow ==
    [][ DOMAIN responses \subseteq DOMAIN responses' ]_vars

\* After a restart of a flow with a skipped category, its answers are
\* still there while profile_1 is being asked again.
C17_Witness ==
    /\ current_category_index = 0
    /\ current_question_index = 0
    /\ skipped_categories # << >>
    /\ Cardinality(DOMAIN responses) >= 3

\* C18: skip_category(c) moves the cursor to (index + 1, 0) exactly when c
\* is the category the cursor points to; for a category already passed
\* or not yet reached the cursor and the question returned next are
\* unchanged, and the traversal still returns that category's questions
\* (at the start of the budget category budget_1 is returned, skipped or
\* not).
C18_SkipOnlyCurrent ==
    /\ []((current_category_index = 1 /\ current_question_index = 0)
            => CurrentQuestion = "budget_1")
    /\ [][ \A c \in SkipInputs \cap CategoryIds :
              skip_category(c)
                => IF ~IsTerminal(current_category_index)
                      /\ categories[current_category_index + 1] = c
                   THEN /\ current_category_index' = current_category_index + 1
                        /\ current_question_index' = 0
                   ELSE /\ current_category_index' = current_category_index
                        /\ current_question_index' = current_question_index
                        /\ CurrentQuestion' = CurrentQuestion ]_vars

\* The budget category was skipped while the cursor was elsewhere, and
\* the cursor now stands at its first question, which is returned.
C18_Witness ==
    /\ skipped_categories = << "budget" >>
    /\ current_category_index = 1
    /\ current_question_index = 0
    /\ CurrentQuestion = "budget_1"
    /\ ~Answered(responses, "budget_1")

\* C19: skipped_categories is an ordered set: no category id occurs in
\* it more than once, whatever skip_category calls were made.
C19_SkippedNoDuplicates ==
    \A i, j \in 1..Len(skipped_categories) :
        skipped_categories[i] = skipped_categories[j] => i = j

\* C20: skip_category with an id that is not a catalog category id is a
\* no-op: it does not fail and leaves the cursor, responses and
\* skipped_categories unchanged.
C20_SkipUnknownIsNoOp ==
    [][ \A c \in SkipInputs \ CategoryIds :
            skip_category(c)
                => /\ raised' = None
                   /\ UNCHANGED << current_category_index, current_question_index,
                                   responses, skipped_categories >> ]_vars

\* C21 (checked under NoteSpec): add_note(category_id, text) appends one
\* note to additional_notes[category_id], in any state and for category
\* ids not in the catalog too, and changes nothing else: the notes of the
\* other categories, the cursor, responses and skipped_categories.
C21_AddNoteAppendsOnly ==
    [][ \A c \in NoteCategoryInputs : \A n \in NoteInputsAlone :
            add_category_note(c, n)
                => /\ DOMAIN additional_notes' = DOMAIN additional_notes \cup { c }
                   /\ additional_notes'[c] =
                        (IF c \in DOMAIN additional_notes
                         THEN additional_notes[c] ELSE << >>) \o << n >>
                   /\ \A o \in DOMAIN additional_notes \ { c } :
                        additional_notes'[o] = additional_notes[o]
                   /\ raised' = None
                   /\ UNCHANGED << current_category_index, current_question_index,
                                   responses, skipped_categories >> ]_vars

\* After completion a second, different note has been appended for the
\* id that is no catalog category, next to a note of the budget category.
C21_Witness ==
    /\ IsComplete(current_category_index)
    /\ DOMAIN additional_notes = { "budget", "no_such_category" }
    /\ additional_notes["no_such_category"]
          = << "call me after six", "no agents please" >>

(***************************************************************************)
(* Properties of the timeline and of the progress report.                  *)
(***************************************************************************)
\* C22: timeline() returns one entry per category in catalog order, with
\* status completed below the cursor's category index, active at it, and
\* above it skipped if the id is in skipped_categories and upcoming
\* otherwise; so a category skipped while active or after being passed
\* is reported completed, never skipped.
C22_TimelineByCursor ==
    LET t == GetTimelineStatus(current_category_index, skipped_categories) IN
    /\ Len(t) = NumCategories
    /\ \A i \in 1..NumCategories :
          /\ t[i].id = categories[i]
          /\ i - 1 < current_category_index => t[i].status = "completed"
          /\ i - 1 = current_category_index => t[i].status = "active"
          /\ (i - 1 > current_category_index /\ t[i].id \in Elements(skipped_categories))
                => t[i].status = "skipped"
          /\ (i - 1 > current_category_index /\ t[i].id \notin Elements(skipped_categories))
                => t[i].status = "upcoming"

\* The budget category is in skipped_categories and the cursor is past
\* it: its entry is "completed".
C22_Witness ==
    /\ "budget" \in Elements(skipped_categories)
    /\ current_category_index = 3
    /\ GetTimelineStatus(current_category_index, skipped_categories)[2].status
          = "completed"

\* C23 (checked under SkipSpec): progress() reports estimated_remaining =
\* (total_categories - categories_completed - number of entries of
\* skipped_categories) x (estimated_total_time / total_categories), which
\* is 1 minute per category, not clamped at 0.
C23_RemainingUnclamped ==
    GetProgress(current_category_index, responses, skipped_categories).estimated_remaining
        = NumCategories - current_category_index - Len(skipped_categories)

\* skip_category calls alone have made estimated_remaining negative.
C23_Witness ==
    /\ responses = EmptyDict
    /\ GetProgress(current_category_index, responses,
                   skipped_categories).estimated_remaining < 0

\* The category that owns question id q.
OwnerOf(q) == CHOOSE c \in CategoryIds : q \in Elements(questions[c])

\* C25: current_question() returns None if and only if is_complete() is
\* true right after the call; when it returns a question q, the cursor
\* points at q and progress() reports the category that owns q as the
\* current category.
C25_NoneIffComplete ==
    LET w == Walk(current_category_index, current_question_index, responses) IN
    /\ w.q = None <=> IsComplete(w.ci)
    /\ w.q # None =>
          /\ w.ci < NumCategories
          /\ w.qi < Len(QuestionsAt(w.ci))
          /\ QuestionsAt(w.ci)[w.qi + 1] = w.q
          /\ GetProgress(w.ci, responses, skipped_categories).current_category
                = OwnerOf(w.q)

\* The cursor stands on a question the walk skips (investment_1, with
\* profile_3 = family): the call returns priorities_1 of a later category.
C25_Witness ==
    /\ current_category_index = 6
    /\ current_question_index = 0
    /\ GetValue(responses, "profile_3") = "family"
    /\ CurrentQuestion = "priorities_1"

\* C26: the cursor effect of process_response does not depend on the
\* question id that is submitted: whatever the id (the one at the cursor,
\* one behind it, one ahead of it, one outside the catalog), the question
\* index grows by one and, when it then reaches the question count of the
\* current category, the cursor rolls over to question 0 of the next
\* category; answering a later question never moves the cursor past it.
C26_CursorEffectSameForAnyId ==
    [][ \A q \in SubmitInputsAlone \cup StrayQuestionIdsAlone :
        \A a \in AnswerInputs(q) :
          process_response(q, a) =>
            IF IsTerminal(current_category_index)
            THEN /\ current_question_index' = current_question_index + 1
                 /\ current_category_index' = current_category_index
            ELSE IF current_question_index + 1
                      >= Len(QuestionsAt(current_category_index))
                 THEN /\ current_category_index' = current_category_index + 1
                      /\ current_question_index' = 0
                 ELSE /\ current_category_index' = current_category_index
                      /\ current_question_index' = current_question_index + 1
      ]_vars

\* The last question was answered while the cursor was at the first one:
\* the cursor moved by one question only.
C26_Witness ==
    /\ DOMAIN responses = { "contact_2" }
    /\ current_category_index = 0
    /\ current_question_index = 1

\* The value recorded for a question id, None when there is no answer.
ValueOf(q) == IF q \in DOMAIN responses THEN responses[q].value ELSE None

\* C28: the urgency level is high if timeline_1 is asap or 3_months or
\* timeline_2 is lease_ending or new_to_dubai; otherwise moderate if
\* timeline_1 is 3_6_months; otherwise low. A timeline_2 of lease_ending
\* or new_to_dubai gives high even when timeline_1 is planning or absent.
C28_UrgencyLevel ==
    categorization.returned =>
      /\ categorization.urgency =
           IF ValueOf("timeline_1") \in { "asap", "3_months" }
              \/ ValueOf("timeline_2") \in { "lease_ending", "new_to_dubai" }
           THEN "high"
           ELSE IF ValueOf("timeline_1") = "3_6_months" THEN "moderate"
           ELSE "low"
      /\ ( /\ ValueOf("timeline_2") \in { "lease_ending", "new_to_dubai" }
           /\ ValueOf("timeline_1") \in { "planning", None } )
         => categorization.urgency = "high"

C28_Witness ==
    /\ categorization.returned
    /\ ValueOf("timeline_1") = "planning"
    /\ ValueOf("timeline_2") = "lease_ending"
    /\ categorization.urgency = "high"

\* The services of a categorization, as a set.
Services == Elements(categorization.service_needs)

\* C29: service_needs is never empty; it holds the defaults
\* property_matching and viewing_arrangement if and only if none of the
\* other rules matched; mortgage_assistance / bank_introduction only when
\* budget_2 is mortgage or mix with budget_3 need_guidance / planning,
\* full_guidance and legal_assistance when profile_2 is first_time,
\* virtual_tours / property_viewings for decision_2 virtual_first /
\* in_person, investment_analysis and rental_management when profile_3 is
\* investment.
C29_ServiceNeeds ==
    categorization.returned =>
      LET financed   == ValueOf("budget_2") \in { "mortgage", "mix" }
          assistance == financed /\ ValueOf("budget_3") = "need_guidance"
          bank       == financed /\ ValueOf("budget_3") = "planning"
          first      == ValueOf("profile_2") = "first_time"
          virtual    == ValueOf("decision_2") = "virtual_first"
          viewings   == ValueOf("decision_2") = "in_person"
          investor   == ValueOf("profile_3") = "investment"
          matched    == assistance \/ bank \/ first \/ virtual \/ viewings \/ investor
      IN  /\ categorization.service_needs # << >>
          /\ "property_matching" \in Services <=> ~matched
          /\ "viewing_arrangement" \in Services <=> ~matched
          /\ "mortgage_assistance" \in Services <=> assistance
          /\ "bank_introduction" \in Services <=> bank
          /\ "full_guidance" \in Services <=> first
          /\ "legal_assistance" \in Services <=> first
          /\ "virtual_tours" \in Services <=> virtual
          /\ "property_viewings" \in Services <=> viewings
          /\ "investment_analysis" \in Services <=> investor
          /\ "rental_management" \in Services <=> investor

\* A mortgage buyer who needs guidance and views in person: two services,
\* no defaults.
C29_Witness ==
    /\ categorization.returned
    /\ ValueOf("budget_2") = "mortgage"
    /\ ValueOf("budget_3") = "need_guidance"
    /\ ValueOf("decision_2") = "in_person"
    /\ categorization.service_needs = << "mortgage_assistance", "property_viewings" >>

\* One buyer_type record for each tier: the one of the lowest score of
\* the tier.
TierRecord(type) ==
    BuyerType(CHOOSE score \in { 0, 40, 60, 80 } : BuyerType(score).type = type)

\* C30: recommendations is a function of buyer_type.type and persona.type
\* alone: every answer map that yields a given tier and persona yields the
\* recommendations of that tier and persona with no services at all, so
\* any two such maps yield identical recommendations; follow_up_strategy
\* is always the follow_up of the buyer tier.
C30_RecommendationsByTierAndPersona ==
    categorization.returned =>
      /\ categorization.recommendations =
           GenerateRecommendations(TierRecord(categorization.buyer_type.type),
                                   categorization.persona, << >>)
      /\ categorization.recommendations.follow_up_strategy =
           categorization.buyer_type.follow_up
      /\ categorization.buyer_type.follow_up =
           TierRecord(categorization.buyer_type.type).follow_up

\* A serious family buyer whose services are not the defaults.
C30_Witness ==
    /\ categorization.returned
    /\ categorization.buyer_type.type = "serious_buyer"
    /\ categorization.persona = "family_focused"
    /\ categorization.service_needs =
         << "full_guidance", "legal_assistance", "virtual_tours" >>
    /\ categorization.recommendations.initial_action
         = "Call immediately and arrange viewings"
    /\ categorization.recommendations.follow_up_strategy = "immediate"

(***************************************************************************)
(* Properties of the conversation router (checked under RouterSpec).      *)
(***************************************************************************)
\* C24: a session is created on the first /start for its id, with cursor
\* (0, 0) and no answers; /start on an id that exists restarts that flow
\* from the first question and keeps all earlier answers; every other
\* endpoint called with an unknown session id answers not-found and
\* creates no session. (http' is the response to the request of the step.)
C24_SessionsCreatedByStartOnly ==
    [][ LET sid == http'.session_id
            h   == http'.handler
        IN  /\ (h = "start" /\ sid \notin DOMAIN conversation_flows) =>
                 /\ DOMAIN conversation_flows' = DOMAIN conversation_flows \cup { sid }
                 /\ conversation_flows'[sid].current_category_index = 0
                 /\ conversation_flows'[sid].current_question_index = 0
                 /\ DOMAIN conversation_flows'[sid].responses = {}
            /\ (h = "start" /\ sid \in DOMAIN conversation_flows) =>
                 /\ DOMAIN conversation_flows' = DOMAIN conversation_flows
                 /\ conversation_flows'[sid].current_category_index = 0
                 /\ conversation_flows'[sid].current_question_index = 0
                 /\ http'.question = "profile_1"
                 /\ conversation_flows'[sid].responses = conversation_flows[sid].responses
            /\ (h # "start" /\ sid \notin DOMAIN conversation_flows) =>
                 /\ http'.code = 404
                 /\ conversation_flows' = conversation_flows
      ]_vars

\* /start was called again for a session with five answers; the other
\* session does not exist.
C24_Witness ==
    /\ http.handler = "start"
    /\ http.session_id = "s1"
    /\ DOMAIN conversation_flows = { "s1" }
    /\ Cardinality(DOMAIN conversation_flows["s1"].responses) = 5
    /\ conversation_flows["s1"].current_category_index = 0
    /\ conversation_flows["s1"].current_question_index = 0

\* C27: for a session that exists, /question and /answer return status
\* "complete" together with a categorization exactly when the flow is
\* complete after the cursor walk, and otherwise status "in_progress"
\* with a question that is not null; /summary includes a categorization
\* if and only if is_complete() is true.
C27_CompleteIffCategorization ==
    http.session_id \in DOMAIN conversation_flows =>
      LET f == conversation_flows[http.session_id] IN
      /\ http.handler \in { "question", "answer" } =>
           IF IsComplete(f.current_category_index)
           THEN /\ http.status = "complete"
                /\ http.categorization.returned
           ELSE /\ http.status = "in_progress"
                /\ http.question # None
                /\ ~http.categorization.returned
      /\ http.handler = "summary" =>
           (http.categorization.returned <=> IsComplete(f.current_category_index))

(***************************************************************************)
(* Properties of categorize_user among other calls (CategorizeSpec).      *)
(***************************************************************************)
\* C31: categorize_user modifies neither responses nor additional_notes,
\* and its result (the timestamp aside) is a function of responses only:
\* whatever the notes and the completion info of the call, the result is
\* the one for the same responses with no notes and the summary of a new
\* flow, so two calls with equal responses return equal lead_score,
\* buyer_type, persona, urgency, service_needs and recommendations.
C31_CategorizeIsPure ==
    /\ [][ categorize_user =>
             /\ responses' = responses
             /\ additional_notes' = additional_notes ]_vars
    /\ [] ( categorization.returned =>
              categorization =
                CategorizeUser(responses, EmptyDict,
                               GetSummary(0, responses, EmptyDict, << >>)) )

\* A categorization of a flow that has a note and two skips.
C31_Witness ==
    /\ categorization.returned
    /\ TotalNotes(additional_notes) = 1
    /\ Len(skipped_categories) = 2
    /\ current_category_index = 1

(***************************************************************************)
(* More properties of the flow engine (checked under Spec).                *)
(***************************************************************************)
\* C32: get_progress reports categories_completed equal to the category
\* index of the cursor, questions_answered equal to the number of distinct
\* answered question ids, total_questions equal to 23 and
\* percentage_complete equal to round(100 x categories_completed / 10),
\* which is 10 x categories_completed; percentage_complete is 100 if and
\* only if is_complete() is true.
C32_ProgressFields ==
    LET p == GetProgress(current_category_index, responses, skipped_categories) IN
    /\ p.categories_completed = current_category_index
    /\ p.questions_answered = Cardinality(DOMAIN responses)
    /\ p.total_questions = 23
    /\ p.total_categories = 10
    /\ p.percentage_complete = 10 * p.categories_completed
    /\ p.percentage_complete = 100 <=> IsComplete(current_category_index)

\* A complete flow with fewer answers than questions.
C32_Witness ==
    /\ IsComplete(current_category_index)
    /\ GetProgress(current_category_index, responses,
                   skipped_categories).percentage_complete = 100
    /\ Cardinality(DOMAIN responses) = 18

\* (ci1, qi1) <= (ci2, qi2) in the lexicographic order
LexLeq(ci1, qi1, ci2, qi2) == ci1 < ci2 \/ (ci1 = ci2 /\ qi1 <= qi2)

\* C34: between two restart_flow calls the cursor never moves backwards:
\* every step that is not a restart_flow (process_response, skip_category,
\* the auto-skip inside get_current_question, the reads) leaves the pair
\* (category index, question index) lexicographically greater than or
\* equal to its previous value; only restart_flow lowers it.
C34_CursorNeverBackwards ==
    [][ \/ restart_flow
        \/ LexLeq(current_category_index, current_question_index,
                  current_category_index', current_question_index') ]_vars

\* The walk has passed budget_3 after budget_2 was answered with cash, and
\* a category was skipped.
C34_Witness ==
    /\ GetValue(responses, "budget_2") = "cash"
    /\ ~Answered(responses, "budget_3")
    /\ current_category_index = 3
    /\ current_question_index = 0
    /\ skipped_categories = << "budget" >>

(***************************************************************************)
(* Properties of the caller's loop (CallerFairSpec).                       *)
(***************************************************************************)
\* The number of catalog questions at or after the cursor (ci, qi).
QuestionsLeft(ci, qi) ==
    Cardinality({ << c, i >> \in (0..(NumCategories - 1)) \X (0..2) :
                    /\ i < Len(QuestionsAt(c))
                    /\ LexLeq(ci, qi, c, i) })

\* C35: a caller that repeatedly calls get_current_question and submits
\* an answer for exactly the id it was given eventually reaches completion
\* (get_current_question returns None and is_complete() is true), after
\* at most 23 submissions, for every choice of answer values and with or
\* without skip_category and add_category_note calls in between: the
\* number of questions at or after the cursor starts at 23, no call
\* raises it, and every submission before completion lowers it.
C35_CallerReachesCompletion ==
    /\ [] ( QuestionsLeft(current_category_index, current_question_index) <= 23 )
    /\ [][ QuestionsLeft(current_category_index', current_question_index')
              <= QuestionsLeft(current_category_index, current_question_index) ]_vars
    /\ [][ ( /\ returned # None
             /\ returned' = None
             /\ ~IsTerminal(current_category_index) )
           => QuestionsLeft(current_category_index', current_question_index')
                 < QuestionsLeft(current_category_index, current_question_index) ]_vars
    /\ <> ( /\ IsComplete(current_category_index)
            /\ FlowQuestion(ThisFlow) = None )

\* Completion was reached by answers alone, no skip: 20 answers.
C35_Witness ==
    /\ IsComplete(current_category_index)
    /\ returned = None
    /\ skipped_categories = << >>
    /\ Cardinality(DOMAIN responses) = 20
    /\ GetValue(responses, "profile_3") = "family"

\* The place of question id q in the catalog: << category index, question
\* index >>, both 0-based.
PlaceOf(q) ==
    CHOOSE ci \in (0..(NumCategories - 1)) \X (0..2) :
        /\ ci[2] < Len(QuestionsAt(ci[1]))
        /\ QuestionsAt(ci[1])[ci[2] + 1] = q

\* Question a comes before question q in the catalog.
Precedes(a, q) ==
    /\ a # q
    /\ LexLeq(PlaceOf(a)[1], PlaceOf(a)[2], PlaceOf(q)[1], PlaceOf(q)[2])

\* C36 (checked under PassSpec): for a caller that only submits the id
\* the preceding get_current_question returned and never calls
\* skip_category, when the flow completes every question without a
\* condition (19 of the 23) has a recorded answer, and each question was
\* returned at most once, in catalog order: a question that is returned
\* has no answer yet and comes after every answered question.
C36_OnePassAnswersAll ==
    /\ [] ( /\ Cardinality(QuestionIds \ ConditionalQuestions) = 19
            /\ IsComplete(current_category_index)
                 => (QuestionIds \ ConditionalQuestions) \subseteq DOMAIN responses )
    /\ [][ (returned = None /\ returned' # None) =>
             /\ returned' \notin DOMAIN responses
             /\ \A a \in DOMAIN responses : Precedes(a, returned') ]_vars

\* The pass of an investor who pays by mortgage is complete: 22 answers.
C36_Witness ==
    /\ IsComplete(current_category_index)
    /\ returned = None
    /\ GetValue(responses, "profile_3") = "investment"
    /\ GetValue(responses, "budget_2") = "mortgage"
    /\ Cardinality(DOMAIN responses) = 22

\* C37 (checked under SecondPassSpec): for a caller that only submits the
\* id the preceding get_current_question returned, in every reachable
\* state, also after restart_flow and a second pass with other answers, a
\* recorded answer of a conditional question (budget_3, lifestyle_1,
\* investment_1, investment_2) exists only if the recorded answer of its
\* gating question (budget_2, profile_3) is in the allowed set.
C37_NoStaleConditionalAnswer ==
    \A q \in ConditionalQuestions \cap DOMAIN responses :
        \A kv \in Condition(q) :
            /\ Answered(responses, kv[1])
            /\ responses[kv[1]].value \in kv[2]

\* C38 (checked under Spec): when process_response fails (it is called
\* while the cursor is at the terminal position), the flow is left as it
\* was: no answer is recorded, the question index is not incremented, and
\* get_progress and a categorization of the answers are the same as
\* before the call.
C38_FailedSubmitChangesNothing ==
    [][ raised' = "IndexError" =>
          /\ responses' = responses
          /\ current_question_index' = current_question_index
          /\ current_category_index' = current_category_index
          /\ GetProgress(current_category_index', responses', skipped_categories')
               = GetProgress(current_category_index, responses, skipped_categories)
          /\ CalculateLeadScore(responses') = CalculateLeadScore(responses) ]_vars

(***************************************************************************)
(* Growing answer maps (ExtendSpec).                                       *)
(***************************************************************************)
\* C39: recording an answer for a question id that had no answer never
\* lowers the lead score: for every answer map R that has a score and
\* every extension R' of R by one new question id with any value, R' has
\* a score and lead_score(R') >= lead_score(R).
C39_NewAnswerNeverLowersScore ==
    [][ ( /\ DOMAIN responses' # DOMAIN responses
          /\ ~LeadScoreRaises(responses) )
        => /\ ~LeadScoreRaises(responses')
           /\ CalculateLeadScore(responses') >= CalculateLeadScore(responses) ]_vars

(***************************************************************************)
(* The chat service (ChatSpec).                                            *)
(***************************************************************************)
\* C40: in each chat session the history alternates user, assistant, user,
\* assistant starting with a user message, and the message count is even
\* whenever no process_message call on the session is in flight, whether
\* the call of the language model succeeds or fails.
C40_HistoryAlternates ==
    \A sid \in DOMAIN sessions :
       /\ \A i \in 1..Len(sessions[sid]) :
             sessions[sid][i] = IF i % 2 = 1 THEN "user" ELSE "assistant"
       /\ sid \notin DOMAIN in_flight => Len(sessions[sid]) % 2 = 0

(***************************************************************************)
(* Concurrent requests for one session (ConcurrentSpec).                   *)
(***************************************************************************)
\* C33: every conversation handler does its whole read-modify-write on the
\* session's flow without yielding (no request is ever suspended in the
\* middle of its handler), so once the concurrent requests of a batch have
\* all been served the flows are those that some sequential order of the
\* requests produces from the flows the batch found.
C33_ConcurrentRequestsSerialized ==
    /\ event_loop.suspended = {}
    /\ ( event_loop.batch # {} /\ event_loop.pending = {} )
          => conversation_flows \in SequentialOutcomes(event_loop.base, event_loop.batch)

\* Two /answer requests were served on a flow that has a question left,
\* and a yield of the first between process_response and
\* get_current_question would have left other flows than those reached.
C33_Witness ==
    /\ event_loop.batch # {}
    /\ event_loop.pending = {}
    /\ AnsweringSession \in DOMAIN event_loop.base
    /\ ~IsTerminal(event_loop.base[AnsweringSession].current_category_index)
    /\ \E r1 \in event_loop.batch : \E r2 \in event_loop.batch \ { r1 } :
          /\ r1.handler = "answer"
          /\ r2.handler = "answer"
          /\ HandlerRest(Handled(HandlerChange(event_loop.base, r1), r2), r1)
                \notin SequentialOutcomes(event_loop.base, event_loop.batch)

=============================================================================
